---- MODULE Spec2Model ----
(***************************************************************************)
(* A model of the MCP Mermaid server: the tool catalogue and the tool-call *)
(* dispatcher (src/index.ts), the six tool handlers (tools.ts) and the     *)
(* export pipeline with its filesystem effects (renderer.ts).              *)
(*                                                                         *)
(* JavaScript strings are TLA+ strings (Len, \o and SubSeq act on them as  *)
(* length, concatenation and substring).  Every other JavaScript value is  *)
(* a tagged record, so that values of different types can be compared.     *)
(* The two non-ASCII marks of tools.ts are written "[U+2705]" (check mark) *)
(* and "[U+274C]" (cross mark), and a backquote is written "[U+0060]".     *)
(***************************************************************************)
EXTENDS Integers, Sequences, FiniteSets, TLC

VARIABLES fs, fsBefore, request, response, trace, listing, calls, inflight, debug

vars == <<fs, fsBefore, request, response, trace, listing, calls, inflight, debug>>

(***************************************************************************)
(* JavaScript values.                                                      *)
(***************************************************************************)
Undefined == [t |-> "undefined"]

Str(s) == [t |-> "string", v |-> s]

Num(n) == [t |-> "number", v |-> n]

Bool(b) == [t |-> "boolean", v |-> b]

Obj(f) == [t |-> "object", v |-> f]

IsString(x) == x.t = "string"

\* ToBoolean: what `if (x)`, `x || y` and `x ? a : b` test.
Truthy(x) ==
    CASE x.t = "undefined" -> FALSE
      [] x.t = "string" -> Len(x.v) > 0
      [] x.t = "number" -> x.v # 0
      [] x.t = "boolean" -> x.v
      [] OTHER -> TRUE

\* What a template literal `${x}` inserts.
ToStr(x) ==
    CASE x.t = "undefined" -> "undefined"
      [] x.t = "string" -> x.v
      [] x.t = "number" -> ToString(x.v)
      [] x.t = "boolean" -> (IF x.v THEN "true" ELSE "false")
      [] OTHER -> "[object Object]"

\* args.k for an arguments object: undefined when the property is absent.
Prop(args, k) == IF k \in DOMAIN args.v THEN args.v[k] ELSE Undefined

\* The destructuring default `k = d`: used exactly when the property is undefined.
OrDefault(x, d) == IF x = Undefined THEN d ELSE x

\* Completion of a call: a returned value, or a thrown Error with its message.
\* cause is the message of the failure that was raised first.
Return(v) == [ok |-> TRUE, value |-> v]

Throw(msg) == [ok |-> FALSE, isError |-> TRUE, message |-> msg, cause |-> msg]

\* `throw new Error(prefix + (e instanceof Error ? e.message : 'Unknown error'))`
Rethrow(prefix, e) ==
    [ok |-> FALSE, isError |-> TRUE,
     message |-> prefix \o (IF e.isError THEN e.message ELSE "Unknown error"),
     cause |-> e.cause]

(***************************************************************************)
(* Strings.                                                                *)
(***************************************************************************)
Min(a, b) == IF a < b THEN a ELSE b

\* s.slice(0, n)
Slice(s, n) == SubSeq(s, 1, Min(n, Len(s)))

\* s.includes(sub)
Contains(s, sub) ==
    \E i \in 1..(Len(s) - Len(sub) + 1) : SubSeq(s, i, i + Len(sub) - 1) = sub

LowerCase == "abcdefghijklmnopqrstuvwxyz"

UpperCase == "ABCDEFGHIJKLMNOPQRSTUVWXYZ"

UpperOf ==
    [c \in {SubSeq(LowerCase, i, i) : i \in 1..26} |->
        LET i == CHOOSE j \in 1..26 : SubSeq(LowerCase, j, j) = c
        IN SubSeq(UpperCase, i, i)]

RECURSIVE UpperFrom(_, _)
UpperFrom(s, i) ==
    IF i > Len(s) THEN ""
    ELSE LET c == SubSeq(s, i, i)
         IN (IF c \in DOMAIN UpperOf THEN UpperOf[c] ELSE c) \o UpperFrom(s, i + 1)

\* s.toUpperCase()
ToUpperCase(s) == UpperFrom(s, 1)

\* Math.round(n / 1024) for n >= 0
RoundKB(n) == (n + 512) \div 1024

(***************************************************************************)
(* Base64 of an ASCII string: Buffer.from(s).toString('base64').           *)
(***************************************************************************)
\* The ASCII characters 32..95 and 97..126 (a backquote, 96, cannot be written in
\* a string of this language; no template of the renderer holds one).
AsciiLow == " !\"#$%&'()*+,-./0123456789:;<=>?@ABCDEFGHIJKLMNOPQRSTUVWXYZ[\\]^_"

AsciiHigh == "abcdefghijklmnopqrstuvwxyz{|}~"

CharCode ==
    [c \in {SubSeq(AsciiLow, i, i) : i \in 1..64}
            \cup {SubSeq(AsciiHigh, i, i) : i \in 1..30} \cup {"\n"} |->
        IF c = "\n" THEN 10
        ELSE IF \E j \in 1..64 : SubSeq(AsciiLow, j, j) = c
             THEN 31 + (CHOOSE j \in 1..64 : SubSeq(AsciiLow, j, j) = c)
             ELSE 96 + (CHOOSE j \in 1..30 : SubSeq(AsciiHigh, j, j) = c)]

B64Alphabet == "ABCDEFGHIJKLMNOPQRSTUVWXYZabcdefghijklmnopqrstuvwxyz0123456789+/"

B64Char(n) == SubSeq(B64Alphabet, n + 1, n + 1)

ByteAt(s, i) == CharCode[SubSeq(s, i, i)]

\* The four characters that encode the g-th group of (up to) three bytes of s.
B64Group(s, g) ==
    LET i == 3 * g - 2
        left == Len(s) - i + 1
        a == ByteAt(s, i)
        b == IF left >= 2 THEN ByteAt(s, i + 1) ELSE 0
        c == IF left >= 3 THEN ByteAt(s, i + 2) ELSE 0
    IN B64Char(a \div 4) \o B64Char((a % 4) * 16 + b \div 16)
         \o (IF left >= 2 THEN B64Char((b % 16) * 4 + c \div 64) ELSE "=")
         \o (IF left >= 3 THEN B64Char(c % 64) ELSE "=")

\* The encoding of groups lo..hi, by halves (the recursion stays shallow).
RECURSIVE B64Groups(_, _, _)
B64Groups(s, lo, hi) ==
    IF lo > hi THEN ""
    ELSE IF lo = hi THEN B64Group(s, lo)
    ELSE LET mid == (lo + hi) \div 2
         IN B64Groups(s, lo, mid) \o B64Groups(s, mid + 1, hi)

\* A variant of Base64Encode that encodes at most the first thirty bytes.
Base64EncodeHead(s) == B64Groups(s, 1, Min(10, (Len(s) + 2) \div 3))

Base64Encode(s) == B64Groups(s, 1, (Len(s) + 2) \div 3)

(***************************************************************************)
(* Paths (node:path, POSIX) and the filesystem the renderer writes to.     *)
(* The filesystem is a set of directories and a map from file paths to     *)
(* contents; paths in it are absolute and normalised.                      *)
(***************************************************************************)
\* Base64 decoding (what a caller does with base64Data): each group of four
\* characters gives up to three bytes, "=" padding gives none.
B64Value ==
    [c \in {SubSeq(B64Alphabet, i, i) : i \in 1..64} \cup {"="} |->
        IF c = "=" THEN 0
        ELSE (CHOOSE j \in 1..64 : SubSeq(B64Alphabet, j, j) = c) - 1]

CharOfCode(n) ==
    IF n = 10 THEN "\n"
    ELSE IF n \in 32..95 THEN SubSeq(AsciiLow, n - 31, n - 31)
    ELSE IF n \in 97..126 THEN SubSeq(AsciiHigh, n - 96, n - 96)
    ELSE "?"

B64DecodeGroup(d, g) ==
    LET i == 4 * g - 3
        v1 == B64Value[SubSeq(d, i, i)]
        v2 == B64Value[SubSeq(d, i + 1, i + 1)]
        v3 == B64Value[SubSeq(d, i + 2, i + 2)]
        v4 == B64Value[SubSeq(d, i + 3, i + 3)]
    IN CharOfCode(v1 * 4 + v2 \div 16)
         \o (IF SubSeq(d, i + 2, i + 2) = "=" THEN ""
             ELSE CharOfCode((v2 % 16) * 16 + v3 \div 4))
         \o (IF SubSeq(d, i + 3, i + 3) = "=" THEN ""
             ELSE CharOfCode((v3 % 4) * 64 + v4))

RECURSIVE B64DecodeGroups(_, _, _)
B64DecodeGroups(d, lo, hi) ==
    IF lo > hi THEN ""
    ELSE IF lo = hi THEN B64DecodeGroup(d, lo)
    ELSE LET mid == (lo + hi) \div 2
         IN B64DecodeGroups(d, lo, mid) \o B64DecodeGroups(d, mid + 1, hi)

Base64Decode(d) == B64DecodeGroups(d, 1, Len(d) \div 4)

\* process.cwd()
Cwd == "/work"

\* Directories in which this process may not create entries.
ReadOnlyDirs == {"/ro"}

\* The filesystem when the server starts: the working directory, a read-only
\* directory and one regular file that was there before.
InitFS ==
    [dirs |-> {"/", "/work", "/ro"},
     files |-> [p \in {"/work/notes"} |-> "kept"]]

RECURSIVE SplitFrom(_, _, _)
SplitFrom(p, i, cur) ==
    IF i > Len(p) THEN (IF cur = "" THEN <<>> ELSE <<cur>>)
    ELSE LET c == SubSeq(p, i, i)
         IN IF c = "/"
            THEN (IF cur = "" THEN <<>> ELSE <<cur>>) \o SplitFrom(p, i + 1, "")
            ELSE SplitFrom(p, i + 1, cur \o c)

\* The components of a path, empty ones dropped.
Segments(p) == SplitFrom(p, 1, "")

RECURSIVE NormalizeSegs(_, _)
NormalizeSegs(segs, acc) ==
    IF segs = <<>> THEN acc
    ELSE LET h == Head(segs)
         IN IF h = "." THEN NormalizeSegs(Tail(segs), acc)
            ELSE IF h = ".."
                 THEN NormalizeSegs(Tail(segs),
                                    IF acc = <<>> THEN acc
                                    ELSE SubSeq(acc, 1, Len(acc) - 1))
                 ELSE NormalizeSegs(Tail(segs), Append(acc, h))

RECURSIVE JoinFrom(_, _)
JoinFrom(segs, i) ==
    IF i > Len(segs) THEN "" ELSE "/" \o segs[i] \o JoinFrom(segs, i + 1)

JoinAbs(segs) == IF segs = <<>> THEN "/" ELSE JoinFrom(segs, 1)

IsAbsolute(p) == Len(p) > 0 /\ SubSeq(p, 1, 1) = "/"

\* path.resolve(p): an absolute, normalised path; a relative one is taken from
\* the working directory.
Resolve(p) ==
    JoinAbs(NormalizeSegs((IF IsAbsolute(p) THEN <<>> ELSE Segments(Cwd))
                            \o Segments(p), <<>>))

\* The index of the slash that ends the directory part of p, scanning from the
\* end and skipping trailing slashes; 0 when there is none (path.dirname's loop).
RECURSIVE DirEnd(_, _, _)
DirEnd(p, i, matchedSlash) ==
    IF i < 2 THEN 0
    ELSE IF SubSeq(p, i, i) = "/"
         THEN (IF matchedSlash THEN DirEnd(p, i - 1, TRUE) ELSE i)
         ELSE DirEnd(p, i - 1, FALSE)

\* path.dirname(p)
DirName(p) ==
    IF Len(p) = 0 THEN "."
    ELSE LET end == DirEnd(p, Len(p), TRUE)
         IN IF end = 0 THEN (IF IsAbsolute(p) THEN "/" ELSE ".")
            ELSE SubSeq(p, 1, end - 1)

EndsWithSlash(p) == Len(p) > 0 /\ SubSeq(p, Len(p), Len(p)) = "/"

\* mkdirSync(dir, { recursive: true }): creates the missing directories one by
\* one; it throws when a component is a regular file or lies in a directory
\* that cannot be written, and keeps what it created before that.
RECURSIVE MkdirFrom(_, _, _)
MkdirFrom(f, segs, k) ==
    IF k > Len(segs) THEN [out |-> Return(Undefined), fs |-> f]
    ELSE LET cur == JoinAbs(SubSeq(segs, 1, k))
             parent == JoinAbs(SubSeq(segs, 1, k - 1))
         IN IF cur \in f.dirs THEN MkdirFrom(f, segs, k + 1)
            ELSE IF cur \in DOMAIN f.files
                 THEN [out |-> Throw("EEXIST: file already exists, mkdir '" \o cur \o "'"),
                       fs |-> f]
            ELSE IF parent \in ReadOnlyDirs
                 THEN [out |-> Throw("EACCES: permission denied, mkdir '" \o cur \o "'"),
                       fs |-> f]
            ELSE MkdirFrom([f EXCEPT !.dirs = @ \cup {cur}], segs, k + 1)

\* A variant of mkdirSync that empties a directory it finds in place.
mkdirSyncAfresh(f, dir) ==
    MkdirFrom([f EXCEPT !.files =
                  [q \in {x \in DOMAIN f.files : DirName(x) # Resolve(dir)} |-> f.files[q]]],
              Segments(Resolve(dir)), 1)

mkdirSync(f, dir) == MkdirFrom(f, Segments(Resolve(dir)), 1)

\* A variant of WriteAt that also keeps a backup copy beside the file.
WriteAtWithBackup(f, path, abs, parent, data) ==
    IF EndsWithSlash(path) \/ abs \in f.dirs
    THEN [out |-> Throw("EISDIR: illegal operation on a directory, open '" \o path \o "'"),
          fs |-> f]
    ELSE IF parent \in DOMAIN f.files
    THEN [out |-> Throw("ENOTDIR: not a directory, open '" \o path \o "'"), fs |-> f]
    ELSE IF parent \notin f.dirs
    THEN [out |-> Throw("ENOENT: no such file or directory, open '" \o path \o "'"),
          fs |-> f]
    ELSE IF parent \in ReadOnlyDirs
    THEN [out |-> Throw("EACCES: permission denied, open '" \o path \o "'"), fs |-> f]
    ELSE [out |-> [ok |-> TRUE, value |-> Undefined],
          fs |-> [f EXCEPT !.files =
                     [q \in DOMAIN f.files \cup {abs, abs \o ".bak"} |->
                         IF q \in {abs, abs \o ".bak"} THEN data ELSE f.files[q]]]]

\* A variant of WriteAt that appends to a file it finds in place.
WriteAtAppending(f, path, abs, parent, data) ==
    IF EndsWithSlash(path) \/ abs \in f.dirs
    THEN [out |-> Throw("EISDIR: illegal operation on a directory, open '" \o path \o "'"),
          fs |-> f]
    ELSE IF parent \in DOMAIN f.files
    THEN [out |-> Throw("ENOTDIR: not a directory, open '" \o path \o "'"), fs |-> f]
    ELSE IF parent \notin f.dirs
    THEN [out |-> Throw("ENOENT: no such file or directory, open '" \o path \o "'"),
          fs |-> f]
    ELSE IF parent \in ReadOnlyDirs
    THEN [out |-> Throw("EACCES: permission denied, open '" \o path \o "'"), fs |-> f]
    ELSE [out |-> [ok |-> TRUE, value |-> Undefined],
          fs |-> [f EXCEPT !.files =
                     [q \in DOMAIN f.files \cup {abs} |->
                         IF q # abs THEN f.files[q]
                         ELSE IF abs \in DOMAIN f.files THEN f.files[abs] \o data
                         ELSE data]]]

\* writeFileSync(path, data): creates or replaces one file; it throws when the
\* path names a directory, its directory is missing or cannot be written.
WriteAt(f, path, abs, parent, data) ==
    IF EndsWithSlash(path) \/ abs \in f.dirs
    THEN [out |-> Throw("EISDIR: illegal operation on a directory, open '" \o path \o "'"),
          fs |-> f]
    ELSE IF parent \in DOMAIN f.files
    THEN [out |-> Throw("ENOTDIR: not a directory, open '" \o path \o "'"), fs |-> f]
    ELSE IF parent \notin f.dirs
    THEN [out |-> Throw("ENOENT: no such file or directory, open '" \o path \o "'"),
          fs |-> f]
    ELSE IF parent \in ReadOnlyDirs
    THEN [out |-> Throw("EACCES: permission denied, open '" \o path \o "'"), fs |-> f]
    ELSE [out |-> Return(Undefined),
          fs |-> [f EXCEPT !.files =
                     [q \in DOMAIN f.files \cup {abs} |->
                         IF q = abs THEN data ELSE f.files[q]]]]

writeFileSync(f, path, data) ==
    WriteAt(f, path, Resolve(path), Resolve(DirName(Resolve(path))), data)

(***************************************************************************)
(* Logger (logger.ts): every method writes one line with console.error.    *)
(***************************************************************************)
LogLine(level, context, message) ==
    [stream |-> "stderr", level |-> level,
     text |-> "[" \o level \o "] [" \o context \o "] " \o message]

LoggerInfo(context, message) == <<LogLine("INFO", context, message)>>

LoggerWarn(context, message) == <<LogLine("WARN", context, message)>>

\* A variant of LoggerDebug that writes its line whatever DEBUG is.
LoggerDebugAlways(env, context, message) == <<LogLine("DEBUG", context, message)>>

\* debug(message): one line when process.env.DEBUG, here env, is truthy.
LoggerDebug(env, context, message) ==
    IF Truthy(env) THEN <<LogLine("DEBUG", context, message)>> ELSE <<>>

LoggerError(context, message, e) ==
    <<LogLine("ERROR", context, message \o " " \o e.message)>>

(***************************************************************************)
(* MermaidRenderer (renderer.ts).  Each operation takes the filesystem f    *)
(* and yields its completion, the filesystem it leaves and its log lines.  *)
(***************************************************************************)
\* How many characters of the diagram source the SVG comment and the PNG and
\* PDF placeholders keep.
PreviewChars == 50

DefaultWidth == 1920

DefaultHeight == 1080

Palette(node, stroke, edge, text) ==
    [nodeColor |-> Str(node), strokeColor |-> Str(stroke),
     edgeColor |-> Str(edge), textColor |-> Str(text)]

\* The `themes` object literal of getThemeColors.
Themes ==
    [default |-> Palette("#fff", "#333", "#333", "#333"),
     dark |-> Palette("#2d2d30", "#d4d4d4", "#d4d4d4", "#d4d4d4"),
     forest |-> Palette("#f9f9f9", "#4a5d23", "#4a5d23", "#2d3748"),
     neutral |-> Palette("#f8f9fa", "#6c757d", "#6c757d", "#495057")]

\* `themes` is a plain object: themes[key] also finds what it inherits from
\* Object.prototype, and every such value is an object or a function (truthy)
\* that has none of the four colour properties.
ObjectPrototypeKeys ==
    {"constructor", "hasOwnProperty", "isPrototypeOf", "propertyIsEnumerable",
     "toLocaleString", "toString", "valueOf", "__proto__", "__defineGetter__",
     "__defineSetter__", "__lookupGetter__", "__lookupSetter__"}

InheritedValue ==
    [nodeColor |-> Undefined, strokeColor |-> Undefined,
     edgeColor |-> Undefined, textColor |-> Undefined]

\* themes[theme] || themes.default
getThemeColors(theme) ==
    LET key == ToStr(theme)
    IN IF key \in DOMAIN Themes THEN Themes[key]
       ELSE IF key \in ObjectPrototypeKeys THEN InheritedValue
       ELSE Themes["default"]

\* x.slice(...) where x may not be a string: a TypeError for undefined.
SliceTypeError(x) ==
    IF x = Undefined
    THEN Throw("Cannot read properties of undefined (reading 'slice')")
    ELSE Throw("diagramCode.slice is not a function")

generateSVGTemplate(diagramCode, theme) ==
    LET themeColors == getThemeColors(theme)
    IN IF ~IsString(diagramCode) THEN SliceTypeError(diagramCode)
       ELSE Return(
    "<?xml version=\"1.0\" encoding=\"UTF-8\"?>\n<svg width=\"400\" heig"
            \o "ht=\"300\" xmlns=\"http://www.w3.org/2000/svg\">\n  <defs>\n    <s"
            \o "tyle>\n      .node { fill: "
            \o ToStr(themeColors.nodeColor)
            \o "; stroke: "
            \o ToStr(themeColors.strokeColor)
            \o "; stroke-width: 2; }\n      .edge { stroke: "
            \o ToStr(themeColors.edgeColor)
            \o "; stroke-width: 2; }\n      .label { fill: "
            \o ToStr(themeColors.textColor)
            \o "; font-family: Arial, sans-serif; font-size: 12px; }\n    </s"
            \o "tyle>\n  </defs>\n  \n  <!-- Generated from Mermaid code: "
            \o Slice(diagramCode.v, PreviewChars)
            \o "... -->\n  <rect class=\"node\" x=\"50\" y=\"50\" width=\"100\" heigh"
            \o "t=\"40\" rx=\"5\"/>\n  <text class=\"label\" x=\"100\" y=\"75\" text-an"
            \o "chor=\"middle\">Start</text>\n  \n  <line class=\"edge\" x1=\"150\" "
            \o "y1=\"70\" x2=\"200\" y2=\"70\" marker-end=\"url(#arrow)\"/>\n  \n  <re"
            \o "ct class=\"node\" x=\"200\" y=\"50\" width=\"100\" height=\"40\" rx=\"5"
            \o "\"/>\n  <text class=\"label\" x=\"250\" y=\"75\" text-anchor=\"middle"
            \o "\">Process</text>\n  \n  <defs>\n    <marker id=\"arrow\" markerWi"
            \o "dth=\"10\" markerHeight=\"10\" refX=\"9\" refY=\"3\" orient=\"auto\">\n"
            \o "      <polygon points=\"0 0, 10 3, 0 6\" fill=\""
            \o ToStr(themeColors.edgeColor)
            \o "\"/>\n    </marker>\n  </defs>\n</svg>")

generateHTMLTemplate(diagramCode, theme) ==
    "<!DOCTYPE html>\n<html lang=\"en\">\n<head>\n    <meta charset=\"U"
    \o "TF-8\">\n    <meta name=\"viewport\" content=\"width=device-width"
    \o ", initial-scale=1.0\">\n    <title>Mermaid Diagram</title>\n   "
    \o " <script src=\"https://cdn.jsdelivr.net/npm/mermaid@10.6.1/di"
    \o "st/mermaid.min.js\"></script>\n    <style>\n        body {\n    "
    \o "        margin: 0;\n            padding: 20px;\n            fo"
    \o "nt-family: -apple-system, BlinkMacSystemFont, 'Segoe UI', Ro"
    \o "boto, sans-serif;\n            "
    \o (IF theme = Str("dark") THEN "background: #1e1e1e; color: #d4d4d4;" ELSE "background: white; color: black;")
    \o "\n        }\n        .diagram-container {\n            text-ali"
    \o "gn: center;\n            padding: 20px;\n        }\n    </style"
    \o ">\n</head>\n<body>\n    <div class=\"diagram-container\">\n       "
    \o " <h1>Generated Diagram</h1>\n        <div class=\"mermaid\">\n"
    \o ToStr(diagramCode)
    \o "\n        </div>\n    </div>\n    \n    <script>\n        mermaid"
    \o ".initialize({ \n            startOnLoad: true,\n            th"
    \o "eme: '"
    \o ToStr(theme)
    \o "',\n            securityLevel: 'loose'\n        });\n    </scri"
    \o "pt>\n</body>\n</html>"

\* ensureDirectoryExists(filePath) for a string: mkdirSync is inside a try whose
\* catch is empty, so only what it did to the filesystem remains.
ensureDirectoryExists(f, filePath) == mkdirSync(f, DirName(filePath)).fs

SizeKB(payload) == ToString(RoundKB(Len(payload))) \o "KB"

\* A variant of ExportResult that never carries base64Data.
ExportResultWithoutData(outputPath, base64Data, size, details) ==
    [success |-> TRUE, outputPath |-> outputPath, base64Data |-> Undefined,
     size |-> size, details |-> details]

ExportResult(outputPath, base64Data, size, details) ==
    [success |-> TRUE, outputPath |-> outputPath, base64Data |-> base64Data,
     size |-> size, details |-> details]

\* A variant of Written that reports the path whether or not the write failed.
WrittenRegardless(w, outputPath, size, details) ==
    [out |-> Return([success |-> TRUE, outputPath |-> Str(Resolve(outputPath)),
                     base64Data |-> Undefined, size |-> size, details |-> details]),
     fs |-> w.fs]

\* The file branch of the four render methods: create the parent directory
\* (dirname throws on a path that is no string), write the payload, report the
\* resolved path.
Written(w, outputPath, size, details) ==
    IF ~w.out.ok THEN w
    ELSE [out |-> Return(ExportResult(Str(Resolve(outputPath)), Undefined, size, details)),
          fs |-> w.fs]

WriteBranch(f, outputPath, payload, size, details) ==
    IF ~IsString(outputPath)
    THEN [out |-> Throw("The \"path\" argument must be of type string."), fs |-> f]
    ELSE Written(writeFileSync(ensureDirectoryExists(f, outputPath.v), outputPath.v,
                               payload),
                 outputPath.v, size, details)

\* A variant of SvgResult that stamps the file it writes with its path.
SvgResultStamped(f, svg, theme, outputPath) ==
    IF ~svg.ok THEN [out |-> svg, fs |-> f]
    ELSE IF Truthy(outputPath)
    THEN WriteBranch(f, outputPath, svg.value \o "<!-- " \o ToStr(outputPath) \o " -->",
                     SizeKB(svg.value),
                     "SVG exported successfully with " \o ToStr(theme) \o " theme")
    ELSE [out |-> Return(ExportResult(Undefined, Str(Base64Encode(svg.value)),
                                      SizeKB(svg.value),
                                      "SVG generated as base64 with "
                                        \o ToStr(theme) \o " theme")),
          fs |-> f]

SvgResult(f, svg, theme, outputPath) ==
    IF ~svg.ok THEN [out |-> svg, fs |-> f]
    ELSE IF Truthy(outputPath)
    THEN WriteBranch(f, outputPath, svg.value, SizeKB(svg.value),
                     "SVG exported successfully with " \o ToStr(theme) \o " theme")
    ELSE [out |-> Return(ExportResult(Undefined, Str(Base64Encode(svg.value)),
                                      SizeKB(svg.value),
                                      "SVG generated as base64 with "
                                        \o ToStr(theme) \o " theme")),
          fs |-> f]

renderSVG(f, diagramCode, theme, outputPath) ==
    SvgResult(f, generateSVGTemplate(diagramCode, theme), theme, outputPath)

PngBase64 ==
    "iVBORw0KGgoAAAANSUhEUgAAAAEAAAABCAYAAAAfFcSJAAAADUlEQVR42mNkYPhfDwAChwGA60e6kgAAAABJRU5ErkJggg=="

\* A variant of renderPNG that refuses an empty diagram source.
renderPNGOfSource(f, diagramCode, theme, width, height, outputPath) ==
    IF ~Truthy(diagramCode)
    THEN [out |-> Throw("Diagram source is empty"), fs |-> f]
    ELSE IF Truthy(outputPath)
    THEN WriteBranch(f, outputPath,
                     "PNG export placeholder for diagram: "
                       \o Slice(ToStr(diagramCode), PreviewChars) \o "...",
                     "~150KB", "PNG would be rendered")
    ELSE [out |-> Return([success |-> TRUE, outputPath |-> Undefined,
                          base64Data |-> Str(PngBase64), size |-> "~150KB",
                          details |-> "PNG would be rendered"]),
          fs |-> f]

renderPNG(f, diagramCode, theme, width, height, outputPath) ==
    LET details == "PNG would be rendered at " \o ToStr(width) \o "x" \o ToStr(height)
                     \o " with " \o ToStr(theme) \o " theme"
    IN IF Truthy(outputPath)
       THEN IF ~IsString(diagramCode)
            THEN [out |-> SliceTypeError(diagramCode), fs |-> f]
            ELSE WriteBranch(f, outputPath,
                             "PNG export placeholder for diagram: "
                               \o Slice(diagramCode.v, PreviewChars) \o "...",
                             "~150KB", details)
       ELSE [out |-> Return(ExportResult(Undefined, Str(PngBase64), "~150KB", details)),
             fs |-> f]

\* A variant of renderPDF that never writes a file.
renderPDFInline(f, diagramCode, theme, outputPath) ==
    [out |-> Return([success |-> TRUE, outputPath |-> Undefined,
                     base64Data |-> Str("JVBERi0xLjQK"), size |-> "~200KB",
                     details |-> "PDF would be generated with " \o ToStr(theme)
                                   \o " theme"]),
     fs |-> f]

PdfBase64 ==
    "JVBERi0xLjQKJeL+LywKMSAwIG9iago8PAovVHlwZSAvQ2F0YWxvZwovUGFnZXMgMiAwIFIKPj4KZW5kb2JqCjIgMCBvYmoKPDwKL1R5cGUgL1BhZ2VzCi9LaWRzIFsgXQovQ291bnQgMAo+PgplbmRvYmoKCnRyYWlsZXIKPDwKL1NpemUgMgovUm9vdCAxIDAgUgo+PgpzdGFydHhyZWYKMTU4CiUlRU9G"

renderPDF(f, diagramCode, theme, outputPath) ==
    LET details == "PDF would be generated with " \o ToStr(theme) \o " theme"
    IN IF Truthy(outputPath)
       THEN IF ~IsString(diagramCode)
            THEN [out |-> SliceTypeError(diagramCode), fs |-> f]
            ELSE WriteBranch(f, outputPath,
                             "PDF export placeholder for diagram: "
                               \o Slice(diagramCode.v, PreviewChars) \o "...",
                             "~200KB", details)
       ELSE [out |-> Return(ExportResult(Undefined, Str(PdfBase64), "~200KB", details)),
             fs |-> f]

\* A variant of HtmlResult that keeps a copy of an inline export on disk.
HtmlResultKept(f, html, theme, outputPath) ==
    IF Truthy(outputPath)
    THEN WriteBranch(f, outputPath, html, SizeKB(html),
                     "Interactive HTML exported with " \o ToStr(theme) \o " theme")
    ELSE [out |-> Return([success |-> TRUE, outputPath |-> Undefined,
                          base64Data |-> Str(Base64Encode(html)), size |-> SizeKB(html),
                          details |-> "Interactive HTML generated with "
                                        \o ToStr(theme) \o " theme"]),
          fs |-> [f EXCEPT !.files = ("/work/export.html" :> html) @@ f.files]]

HtmlResult(f, html, theme, outputPath) ==
    IF Truthy(outputPath)
    THEN WriteBranch(f, outputPath, html, SizeKB(html),
                     "Interactive HTML exported with " \o ToStr(theme) \o " theme")
    ELSE [out |-> Return(ExportResult(Undefined, Str(Base64Encode(html)), SizeKB(html),
                                      "Interactive HTML generated with "
                                        \o ToStr(theme) \o " theme")),
          fs |-> f]

\* A variant of renderHTML that embeds the preview of the source, as the SVG
\* template does.
renderHTMLOfPreview(f, diagramCode, theme, outputPath) ==
    HtmlResult(f, generateHTMLTemplate(Str(Slice(ToStr(diagramCode), PreviewChars)), theme),
               theme, outputPath)

renderHTML(f, diagramCode, theme, outputPath) ==
    HtmlResult(f, generateHTMLTemplate(diagramCode, theme), theme, outputPath)

\* A variant of FormatSwitch that takes any format that is not png, pdf or
\* html for svg.
FormatSwitchOpen(f, diagramCode, format, theme, width, height, outputPath) ==
    CASE format = Str("png") -> renderPNG(f, diagramCode, theme, width, height, outputPath)
      [] format = Str("pdf") -> renderPDF(f, diagramCode, theme, outputPath)
      [] format = Str("html") -> renderHTML(f, diagramCode, theme, outputPath)
      [] OTHER -> renderSVG(f, diagramCode, theme, outputPath)

\* The switch of exportDiagram: the four cases and the default that throws.
FormatSwitch(f, diagramCode, format, theme, width, height, outputPath) ==
    CASE format = Str("svg") -> renderSVG(f, diagramCode, theme, outputPath)
      [] format = Str("png") -> renderPNG(f, diagramCode, theme, width, height, outputPath)
      [] format = Str("pdf") -> renderPDF(f, diagramCode, theme, outputPath)
      [] format = Str("html") -> renderHTML(f, diagramCode, theme, outputPath)
      [] OTHER -> [out |-> Throw("Unsupported format: " \o ToStr(format)), fs |-> f]

\* exportDiagram(options): options is a record of JavaScript values, undefined
\* for a property that is not there; theme, width and height have defaults.
\* The logger.info before the try, and the catch that logs and rethrows.
ExportLogged(r, format, theme) ==
    [out |-> r.out, fs |-> r.fs,
     log |-> LoggerInfo("MermaidRenderer",
                        "Rendering diagram to " \o ToStr(format) \o " with theme "
                          \o ToStr(theme))
             \o (IF r.out.ok THEN <<>>
                 ELSE LoggerError("MermaidRenderer", "Export failed:", r.out))]

ExportWith(f, options, theme, width, height) ==
    ExportLogged(FormatSwitch(f, options.diagramCode, options.format, theme, width,
                              height, options.outputPath),
                 options.format, theme)

exportDiagram(f, options) ==
    ExportWith(f, options, OrDefault(options.theme, Str("default")),
               OrDefault(options.width, Num(DefaultWidth)),
               OrDefault(options.height, Num(DefaultHeight)))

(***************************************************************************)
(* MermaidTools (tools.ts).  A handler takes the filesystem f and the      *)
(* arguments value (undefined, or an object) and yields its completion,    *)
(* the filesystem it leaves, the methods that ran, what exportDiagram was  *)
(* asked and answered, and its log lines.                                  *)
(***************************************************************************)
Backquote == "[U+0060]"

Fence == Backquote \o Backquote \o Backquote

CheckMark == "[U+2705]"

CrossMark == "[U+274C]"

\* How many characters of the workflow description the report keeps.
DescriptionChars == 100

NoExport == [called |-> FALSE]

\* A variant of TextResponse that attaches an image block.
TextResponseWithImage(text) ==
    [content |-> <<[type |-> "text", text |-> text],
                   [type |-> "image", data |-> "", mimeType |-> "image/png"]>>]

\* A variant of TextResponse that numbers the responses of the process.
TextResponseNumbered(text) ==
    [content |-> <<[type |-> "text", text |-> text \o "\n#" \o ToString(calls)]>>]

TextResponse(text) == [content |-> <<[type |-> "text", text |-> text]>>]

RECURSIVE JoinStrings(_, _)
JoinStrings(list, sep) ==
    IF list = <<>> THEN ""
    ELSE IF Len(list) = 1 THEN list[1]
    ELSE list[1] \o sep \o JoinStrings(Tail(list), sep)

\* The object patterns the handlers destructure their arguments with: each
\* name with its default, undefined when the pattern gives none.
Destructuring ==
    [generate_diagram_from_code |->
        [code |-> Undefined, diagram_type |-> Str("auto"), language |-> Undefined,
         include_details |-> Bool(FALSE)],
     analyze_diagram_structure |->
        [diagram_code |-> Undefined, analysis_type |-> Str("full")],
     suggest_diagram_improvements |->
        [diagram_code |-> Undefined, context |-> Undefined, audience |-> Str("general")],
     create_workflow_diagram |->
        [workflow_description |-> Undefined, workflow_type |-> Undefined,
         include_decision_points |-> Bool(TRUE), format |-> Str("flowchart")],
     export_diagram_formats |->
        [diagram_code |-> Undefined, format |-> Undefined, output_path |-> Undefined,
         theme |-> Str("default"), width |-> Num(DefaultWidth),
         height |-> Num(DefaultHeight)],
     validate_diagram_syntax |->
        [diagram_code |-> Undefined, strict_mode |-> Bool(FALSE),
         provide_suggestions |-> Bool(TRUE)]]

\* A variant of Destructure whose pattern has no defaults.
DestructureWithoutDefaults(tool, args) ==
    [k \in DOMAIN Destructuring[tool] |-> Prop(args, k)]

\* const { a, b = d, ... } = args, for an args object.
Destructure(tool, args) ==
    [k \in DOMAIN Destructuring[tool] |->
        OrDefault(Prop(args, k), Destructuring[tool][k])]

\* Destructuring undefined throws a TypeError that names the first property.
DestructureError(first) ==
    Throw("Cannot destructure property '" \o first \o "' of 'args' as it is undefined.")

\* x.method(...) where x is not a string.
MethodTypeError(x, name, method) ==
    IF x = Undefined
    THEN Throw("Cannot read properties of undefined (reading '" \o method \o "')")
    ELSE Throw(name \o "." \o method \o " is not a function")

Failed(ran, e, log) ==
    [out |-> e, ran |-> ran, export |-> NoExport, log |-> log]

analyzeCodeStructure(code, language) ==
    [detectedType |-> "flowchart", complexity |-> "medium",
     elements |-> <<"functions", "variables", "classes">>]

generateDiagramCode(analysis, diagramType, includeDetails) ==
    "flowchart TD\n    A[Start] --> B[Process]\n    B --> C[End]"

performDiagramAnalysis(diagramCode, analysisType) ==
    [type |-> "flowchart", nodeCount |-> 3, edgeCount |-> 2, complexityScore |-> 5,
     details |-> "Simple linear flow",
     recommendations |-> <<"Add decision points", "Include error handling">>]

generateImprovementSuggestions(diagramCode, context, audience) ==
    <<[title |-> "Improve Readability", priority |-> "High",
       description |-> "Add clearer labels and grouping",
       implementation |-> "Use subgraphs and better node labels",
       optimizedCode |-> diagramCode]>>

\* A variant of generateWorkflowDiagram that draws the decision-branching
\* flowchart only when decision points are asked for.
generateWorkflowDiagramByDecisions(description, type, includeDecisions, format) ==
    CASE format = Str("sequence") ->
           "sequenceDiagram\n    participant A as User\n    participant B as System\n"
             \o "    A->>B: Request\n    B-->>A: Response"
      [] format = Str("state") ->
           "stateDiagram-v2\n    [*] --> Idle\n    Idle --> Processing\n    Processing --> [*]"
      [] format = Str("gantt") ->
           "gantt\n    title Project Timeline\n    dateFormat YYYY-MM-DD\n"
             \o "    section Phase 1\n    Task 1: 2024-01-01, 3d"
      [] OTHER ->
           IF Truthy(includeDecisions)
           THEN "flowchart TD\n    A[Start] --> B{Decision}\n    B -->|Yes| C[Action]\n"
                  \o "    B -->|No| D[Alternative]\n    C --> E[End]\n    D --> E"
           ELSE "flowchart TD\n    A[Start] --> C[Action]\n    C --> E[End]"

generateWorkflowDiagram(description, type, includeDecisions, format) ==
    CASE format = Str("sequence") ->
           "sequenceDiagram\n    participant A as User\n    participant B as System\n"
             \o "    A->>B: Request\n    B-->>A: Response"
      [] format = Str("state") ->
           "stateDiagram-v2\n    [*] --> Idle\n    Idle --> Processing\n    Processing --> [*]"
      [] format = Str("gantt") ->
           "gantt\n    title Project Timeline\n    dateFormat YYYY-MM-DD\n"
             \o "    section Phase 1\n    Task 1: 2024-01-01, 3d"
      [] OTHER ->
           "flowchart TD\n    A[Start] --> B{Decision}\n    B -->|Yes| C[Action]\n"
             \o "    B -->|No| D[Alternative]\n    C --> E[End]\n    D --> E"

performSyntaxValidation(diagramCode, strictMode) ==
    [isValid |-> TRUE, diagramType |-> "flowchart", nodeCount |-> 3,
     complexity |-> "low", errors |-> <<>>, suggestions |-> <<>>,
     correctedCode |-> Undefined]

\* A variant of ValidationReport that lists the suggested fixes whether or not
\* they were asked for.
ValidationReportWithFixes(validation, provide_suggestions) ==
    "# Syntax Validation Results\n\n"
    \o (IF validation.isValid
        THEN CheckMark \o " **Valid Mermaid syntax**\n\n" \o "## Diagram Info\n"
               \o "- **Type**: " \o validation.diagramType \o "\n"
               \o "- **Nodes**: " \o ToString(validation.nodeCount) \o "\n"
               \o "- **Complexity**: " \o validation.complexity \o "\n"
        ELSE CrossMark \o " **Invalid syntax found**\n\n" \o "## Errors\n"
               \o JoinStrings([i \in 1..Len(validation.errors) |->
                                 "- **Line " \o ToString(validation.errors[i].line)
                                   \o "**: " \o validation.errors[i].message], "\n")
               \o "\n\n"
               \o (IF Len(validation.suggestions) > 0
                   THEN "## Suggested Fixes\n"
                          \o JoinStrings([i \in 1..Len(validation.suggestions) |->
                                            "- " \o validation.suggestions[i]], "\n")
                          \o "\n\n"
                          \o (IF Truthy(validation.correctedCode)
                              THEN "## Corrected Code\n" \o Fence \o "mermaid\n"
                                     \o ToStr(validation.correctedCode) \o "\n" \o Fence
                              ELSE "")
                   ELSE ""))

\* The report validateDiagramSyntax builds from a validation result.
ValidationReport(validation, provide_suggestions) ==
    "# Syntax Validation Results\n\n"
    \o (IF validation.isValid
        THEN CheckMark \o " **Valid Mermaid syntax**\n\n" \o "## Diagram Info\n"
               \o "- **Type**: " \o validation.diagramType \o "\n"
               \o "- **Nodes**: " \o ToString(validation.nodeCount) \o "\n"
               \o "- **Complexity**: " \o validation.complexity \o "\n"
        ELSE CrossMark \o " **Invalid syntax found**\n\n" \o "## Errors\n"
               \o JoinStrings([i \in 1..Len(validation.errors) |->
                                 "- **Line " \o ToString(validation.errors[i].line)
                                   \o "**: " \o validation.errors[i].message], "\n")
               \o "\n\n"
               \o (IF Truthy(provide_suggestions) /\ Len(validation.suggestions) > 0
                   THEN "## Suggested Fixes\n"
                          \o JoinStrings([i \in 1..Len(validation.suggestions) |->
                                            "- " \o validation.suggestions[i]], "\n")
                          \o "\n\n"
                          \o (IF Truthy(validation.correctedCode)
                              THEN "## Corrected Code\n" \o Fence \o "mermaid\n"
                                     \o ToStr(validation.correctedCode) \o "\n" \o Fence
                              ELSE "")
                   ELSE ""))

ValidateBody(a) ==
    [out |-> Return(TextResponse(
                ValidationReport(performSyntaxValidation(a.diagram_code, a.strict_mode),
                                 a.provide_suggestions))),
     ran |-> <<"validateDiagramSyntax">>,
     export |-> NoExport,
     log |-> LoggerInfo("MermaidTools",
                        "Validating diagram syntax (strict: " \o ToStr(a.strict_mode)
                          \o ")")]

validateDiagramSyntax(args) ==
    IF args = Undefined
    THEN Failed(<<"validateDiagramSyntax">>, DestructureError("diagram_code"), <<>>)
    ELSE ValidateBody(Destructure("validate_diagram_syntax", args))

GenerateReport(info, analysis, diagramCode, validation) ==
    IF ~validation.out.ok
    THEN Failed(<<"generateDiagramFromCode">> \o validation.ran,
                Rethrow("Failed to generate diagram from code: ", validation.out),
                info \o validation.log)
    ELSE [out |-> Return(TextResponse(
             "# Generated " \o analysis.detectedType
             \o " Diagram\n\n" \o Fence \o "mermaid\n" \o diagramCode
             \o "\n" \o Fence \o "\n\n## Analysis Summary\n- **Detected Type**: "
             \o analysis.detectedType
             \o "\n- **Complexity**: " \o analysis.complexity
             \o "\n- **Elements**: " \o JoinStrings(analysis.elements, ", ")
             \o "\n- **Syntax Valid**: "
             \o (IF Contains(validation.out.value.content[1].text, CheckMark)
                 THEN "Yes" ELSE "No"))),
          ran |-> <<"generateDiagramFromCode">> \o validation.ran,
          export |-> NoExport,
          log |-> info \o validation.log]

GenerateValidated(info, analysis, diagramCode) ==
    GenerateReport(info, analysis, diagramCode,
                   validateDiagramSyntax(Obj([k \in {"diagram_code"} |->
                                                Str(diagramCode)])))

GenerateBody(a) ==
    GenerateValidated(
        LoggerInfo("MermaidTools",
                   "Generating " \o ToStr(a.diagram_type) \o " diagram from "
                     \o (IF Truthy(a.language) THEN ToStr(a.language) ELSE "unknown")
                     \o " code"),
        analyzeCodeStructure(a.code, a.language),
        generateDiagramCode(analyzeCodeStructure(a.code, a.language), a.diagram_type,
                            a.include_details))

generateDiagramFromCode(args) ==
    IF args = Undefined
    THEN Failed(<<"generateDiagramFromCode">>, DestructureError("code"), <<>>)
    ELSE GenerateBody(Destructure("generate_diagram_from_code", args))

AnalysisReport(a, analysis) ==
    [out |-> Return(TextResponse(
        "# Diagram Structure Analysis\n\n## Overview\n- **Type**: " \o analysis.type
        \o "\n- **Nodes**: " \o ToString(analysis.nodeCount)
        \o "\n- **Edges**: " \o ToString(analysis.edgeCount)
        \o "\n- **Complexity Score**: " \o ToString(analysis.complexityScore)
        \o "/10\n\n## Structure Details\n" \o analysis.details
        \o "\n\n## Recommendations\n"
        \o JoinStrings([i \in 1..Len(analysis.recommendations) |->
                          "- " \o analysis.recommendations[i]], "\n"))),
     ran |-> <<"analyzeDiagramStructure">>,
     export |-> NoExport,
     log |-> LoggerInfo("MermaidTools",
                        "Analyzing diagram structure: " \o ToStr(a.analysis_type))]

AnalyzeBody(a) ==
    AnalysisReport(a, performDiagramAnalysis(a.diagram_code, a.analysis_type))

analyzeDiagramStructure(args) ==
    IF args = Undefined
    THEN Failed(<<"analyzeDiagramStructure">>, DestructureError("diagram_code"), <<>>)
    ELSE AnalyzeBody(Destructure("analyze_diagram_structure", args))

\* suggestions.find(s => s.optimizedCode)?.optimizedCode || diagram_code
OptimizedVersion(suggestions, diagram_code) ==
    LET found == {i \in 1..Len(suggestions) : Truthy(suggestions[i].optimizedCode)}
    IN IF found = {} THEN ToStr(diagram_code)
       ELSE ToStr(suggestions[CHOOSE i \in found : \A j \in found : i <= j].optimizedCode)

SuggestionReport(a, suggestions) ==
    [out |-> Return(TextResponse(
        "# Diagram Improvement Suggestions\n\n## For " \o ToStr(a.audience)
        \o " audience\n\n"
        \o JoinStrings([i \in 1..Len(suggestions) |->
             "### " \o ToString(i) \o ". " \o suggestions[i].title
             \o "\n**Priority**: " \o suggestions[i].priority
             \o "\n**Description**: " \o suggestions[i].description
             \o "\n**Implementation**: " \o suggestions[i].implementation \o "\n"],
             "\n")
        \o "\n\n## Optimized Version\n" \o Fence \o "mermaid\n"
        \o OptimizedVersion(suggestions, a.diagram_code)
        \o "\n" \o Fence)),
     ran |-> <<"suggestDiagramImprovements">>,
     export |-> NoExport,
     log |-> LoggerInfo("MermaidTools",
                        "Suggesting improvements for " \o ToStr(a.audience)
                          \o " audience")]

SuggestBody(a) ==
    SuggestionReport(a, generateImprovementSuggestions(a.diagram_code, a.context,
                                                       a.audience))

suggestDiagramImprovements(args) ==
    IF args = Undefined
    THEN Failed(<<"suggestDiagramImprovements">>, DestructureError("diagram_code"), <<>>)
    ELSE SuggestBody(Destructure("suggest_diagram_improvements", args))

WorkflowReport(a, info, workflowDiagram) ==
    IF ~IsString(a.workflow_type)
    THEN Failed(<<"createWorkflowDiagram">>,
                Rethrow("Failed to create workflow diagram: ",
                        MethodTypeError(a.workflow_type, "workflow_type", "toUpperCase")),
                info)
    ELSE IF ~IsString(a.workflow_description)
    THEN Failed(<<"createWorkflowDiagram">>,
                Rethrow("Failed to create workflow diagram: ",
                        MethodTypeError(a.workflow_description, "workflow_description",
                                        "slice")),
                info)
    ELSE [out |-> Return(TextResponse(
             "# " \o ToUpperCase(a.workflow_type.v)
             \o " Workflow Diagram\n\n" \o Fence \o "mermaid\n" \o workflowDiagram
             \o "\n" \o Fence \o "\n\n## Workflow Features\n- **Type**: "
             \o a.workflow_type.v
             \o "\n- **Format**: " \o ToStr(a.format)
             \o "\n- **Decision Points**: "
             \o (IF Truthy(a.include_decision_points) THEN "Included" ELSE "Not included")
             \o "\n- **Generated from**: "
             \o Slice(a.workflow_description.v, DescriptionChars)
             \o (IF Len(a.workflow_description.v) > DescriptionChars THEN "..." ELSE ""))),
          ran |-> <<"createWorkflowDiagram">>,
          export |-> NoExport,
          log |-> info]

WorkflowBody(a) ==
    WorkflowReport(a,
                   LoggerInfo("MermaidTools",
                              "Creating " \o ToStr(a.workflow_type)
                                \o " workflow diagram in " \o ToStr(a.format) \o " format"),
                   generateWorkflowDiagram(a.workflow_description, a.workflow_type,
                                           a.include_decision_points, a.format))

createWorkflowDiagram(args) ==
    IF args = Undefined
    THEN Failed(<<"createWorkflowDiagram">>, DestructureError("workflow_description"),
                <<>>)
    ELSE WorkflowBody(Destructure("create_workflow_diagram", args))

\* The options object exportDiagramFormats passes to the renderer.
ExportOptions(a) ==
    [diagramCode |-> a.diagram_code, format |-> a.format, theme |-> a.theme,
     width |-> a.width, height |-> a.height, outputPath |-> a.output_path]

ExportReport(a, info, options, r) ==
    IF ~r.out.ok
    THEN [out |-> Rethrow("Failed to export diagram: ", r.out), fs |-> r.fs,
          ran |-> <<"exportDiagramFormats", "exportDiagram">>,
          export |-> [called |-> TRUE, options |-> options, out |-> r.out],
          log |-> info \o r.log]
    ELSE [out |-> Return(TextResponse(
             "# Diagram Export Complete\n\n- **Format**: " \o ToUpperCase(a.format.v)
             \o "\n- **Theme**: " \o ToStr(a.theme)
             \o "\n- **Dimensions**: " \o ToStr(a.width) \o "x" \o ToStr(a.height)
             \o "\n- **Output**: "
             \o (IF Truthy(r.out.value.outputPath) THEN ToStr(r.out.value.outputPath)
                 ELSE "Base64 encoded")
             \o "\n- **Size**: " \o r.out.value.size
             \o "\n\n## Export Details\n" \o r.out.value.details)),
          fs |-> r.fs,
          ran |-> <<"exportDiagramFormats", "exportDiagram">>,
          export |-> [called |-> TRUE, options |-> options, out |-> r.out],
          log |-> info \o r.log]

ExportBody(f, a) ==
    ExportReport(a,
                 LoggerInfo("MermaidTools",
                            "Exporting diagram to " \o ToStr(a.format) \o " format with "
                              \o ToStr(a.theme) \o " theme"),
                 ExportOptions(a),
                 exportDiagram(f, ExportOptions(a)))

exportDiagramFormats(f, args) ==
    IF args = Undefined
    THEN Failed(<<"exportDiagramFormats">>, DestructureError("diagram_code"), <<>>)
           @@ [fs |-> f]
    ELSE ExportBody(f, Destructure("export_diagram_formats", args))

(***************************************************************************)
(* MermaidServer (index.ts): the listing and the tool-call request handler.*)
(***************************************************************************)
Property(type, enum, default) == [type |-> type, enum |-> enum, default |-> default]

\* The tools the ListToolsRequestSchema handler returns, with their input
\* schemas: the properties (type, enum, default; undefined for no default) and
\* the required names.
ToolCatalogue ==
    <<[name |-> "generate_diagram_from_code",
       properties |->
         [code |-> Property("string", {}, Undefined),
          diagram_type |-> Property("string",
                                    {"flowchart", "sequence", "class", "state", "auto"},
                                    Undefined),
          language |-> Property("string", {}, Undefined),
          include_details |-> Property("boolean", {}, Bool(FALSE))],
       required |-> {"code"}],
      [name |-> "analyze_diagram_structure",
       properties |->
         [diagram_code |-> Property("string", {}, Undefined),
          analysis_type |-> Property("string",
                                     {"structure", "complexity", "optimization", "full"},
                                     Str("full"))],
       required |-> {"diagram_code"}],
      [name |-> "suggest_diagram_improvements",
       properties |->
         [diagram_code |-> Property("string", {}, Undefined),
          context |-> Property("string", {}, Undefined),
          audience |-> Property("string",
                                {"technical", "business", "general", "documentation"},
                                Str("general"))],
       required |-> {"diagram_code"}],
      [name |-> "create_workflow_diagram",
       properties |->
         [workflow_description |-> Property("string", {}, Undefined),
          workflow_type |-> Property("string",
                                     {"git", "cicd", "business", "development",
                                      "deployment"}, Undefined),
          include_decision_points |-> Property("boolean", {}, Bool(TRUE)),
          format |-> Property("string", {"flowchart", "sequence", "state", "gantt"},
                              Str("flowchart"))],
       required |-> {"workflow_description", "workflow_type"}],
      [name |-> "export_diagram_formats",
       properties |->
         [diagram_code |-> Property("string", {}, Undefined),
          format |-> Property("string", {"svg", "png", "pdf", "html"}, Undefined),
          output_path |-> Property("string", {}, Undefined),
          theme |-> Property("string", {"default", "dark", "forest", "neutral"},
                             Str("default")),
          width |-> Property("number", {}, Num(1920)),
          height |-> Property("number", {}, Num(1080))],
       required |-> {"diagram_code", "format"}],
      [name |-> "validate_diagram_syntax",
       properties |->
         [diagram_code |-> Property("string", {}, Undefined),
          strict_mode |-> Property("boolean", {}, Bool(FALSE)),
          provide_suggestions |-> Property("boolean", {}, Bool(TRUE))],
       required |-> {"diagram_code"}]>>

\* A variant of Dispatch whose default case runs the export handler.
DispatchWithoutDefault(f, name, args) ==
    CASE name = "generate_diagram_from_code" ->
           generateDiagramFromCode(args) @@ [fs |-> f, handler |-> "generateDiagramFromCode"]
      [] name = "analyze_diagram_structure" ->
           analyzeDiagramStructure(args) @@ [fs |-> f, handler |-> "analyzeDiagramStructure"]
      [] name = "suggest_diagram_improvements" ->
           suggestDiagramImprovements(args)
             @@ [fs |-> f, handler |-> "suggestDiagramImprovements"]
      [] name = "create_workflow_diagram" ->
           createWorkflowDiagram(args) @@ [fs |-> f, handler |-> "createWorkflowDiagram"]
      [] name = "validate_diagram_syntax" ->
           validateDiagramSyntax(args) @@ [fs |-> f, handler |-> "validateDiagramSyntax"]
      [] OTHER ->
           exportDiagramFormats(f, args) @@ [handler |-> "exportDiagramFormats"]

\* A variant of Dispatch that ignores the case of the name and blanks after it.
DispatchFolded(f, name, args) ==
    CASE name = "generate_diagram_from_code" ->
           generateDiagramFromCode(args) @@ [fs |-> f, handler |-> "generateDiagramFromCode"]
      [] name = "analyze_diagram_structure" ->
           analyzeDiagramStructure(args) @@ [fs |-> f, handler |-> "analyzeDiagramStructure"]
      [] name = "suggest_diagram_improvements" ->
           suggestDiagramImprovements(args)
             @@ [fs |-> f, handler |-> "suggestDiagramImprovements"]
      [] name = "create_workflow_diagram" ->
           createWorkflowDiagram(args) @@ [fs |-> f, handler |-> "createWorkflowDiagram"]
      [] name \in {"export_diagram_formats", "Export_Diagram_Formats",
                   "export_diagram_formats "} ->
           exportDiagramFormats(f, args) @@ [handler |-> "exportDiagramFormats"]
      [] name = "validate_diagram_syntax" ->
           validateDiagramSyntax(args) @@ [fs |-> f, handler |-> "validateDiagramSyntax"]
      [] OTHER ->
           [out |-> Throw("Unknown tool: " \o name), ran |-> <<>>,
            export |-> [called |-> FALSE], log |-> <<>>, fs |-> f,
            handler |-> "default"]

\* The switch on the tool name: the handler of the matching case, or the
\* default that throws.  handler names the case taken.
Dispatch(f, name, args) ==
    CASE name = "generate_diagram_from_code" ->
           generateDiagramFromCode(args) @@ [fs |-> f, handler |-> "generateDiagramFromCode"]
      [] name = "analyze_diagram_structure" ->
           analyzeDiagramStructure(args) @@ [fs |-> f, handler |-> "analyzeDiagramStructure"]
      [] name = "suggest_diagram_improvements" ->
           suggestDiagramImprovements(args)
             @@ [fs |-> f, handler |-> "suggestDiagramImprovements"]
      [] name = "create_workflow_diagram" ->
           createWorkflowDiagram(args) @@ [fs |-> f, handler |-> "createWorkflowDiagram"]
      [] name = "export_diagram_formats" ->
           exportDiagramFormats(f, args) @@ [handler |-> "exportDiagramFormats"]
      [] name = "validate_diagram_syntax" ->
           validateDiagramSyntax(args) @@ [fs |-> f, handler |-> "validateDiagramSyntax"]
      [] OTHER ->
           Failed(<<>>, Throw("Unknown tool: " \o name), <<>>)
             @@ [fs |-> f, handler |-> "default"]

\* A variant of ToolBoundary without the catch: a failure leaves the handler.
ToolBoundaryWithoutCatch(name, out) ==
    IF out.ok THEN [thrown |-> FALSE, result |-> out.value]
    ELSE [thrown |-> TRUE, result |-> Undefined]

\* The try/catch around the switch: a result is returned as it is, a failure
\* becomes a response with one text block.
ToolBoundary(name, out) ==
    IF out.ok THEN [thrown |-> FALSE, result |-> out.value]
    ELSE LET errorMessage == IF out.isError THEN out.message
                             ELSE "Unknown error occurred"
         IN [thrown |-> FALSE,
             result |-> TextResponse("Error executing " \o name \o ": " \o errorMessage)]

\* The CallToolRequestSchema handler on a request [name, arguments]: the
\* response, the filesystem it leaves and what happened on the way (failure is
\* the message of the error raised first, message that of the error the catch
\* received).
HandlerOutcome(req, r) ==
    [response |-> ToolBoundary(req.name, r.out),
     fs |-> r.fs,
     trace |-> [handler |-> r.handler, ran |-> r.ran, export |-> r.export,
                failure |-> IF r.out.ok THEN Undefined ELSE Str(r.out.cause),
                message |-> IF r.out.ok THEN Undefined ELSE Str(r.out.message),
                log |-> r.log
                        \o (IF r.out.ok THEN <<>>
                            ELSE LoggerError("MermaidServer",
                                             "Tool execution failed for " \o req.name
                                               \o ":", r.out))]]

CallToolHandler(f, req) == HandlerOutcome(req, Dispatch(f, req.name, req.arguments))

(***************************************************************************)
(* The requests the model sends.                                           *)
(***************************************************************************)
\* How many tool calls a run makes.
MaxCalls == 2

ShortSource == "flowchart TD\nA-->B"

\* Two sources that agree on their first PreviewChars characters and differ after.
LongSourceA == "flowchart TD\n    A[Start] --> B[Check] --> C[Done]X"

LongSourceB == "flowchart TD\n    A[Start] --> B[Check] --> C[Done]\n    Z --> Y"

\* A source with markup after an arrow.
MarkupSource == "graph TD\nA--><rect class='node' width='9' height='9'/>"

\* A description of exactly DescriptionChars characters, and a longer one.
FullDescription ==
    "Build the project, run the unit tests, package the artifact "
    \o "and deploy it to staging before release."

LongDescription == FullDescription \o " Then notify the team."

\* An arguments object from a record: the properties that are undefined in the
\* record are absent from the object.
ObjOf(r) == Obj([k \in {j \in DOMAIN r : r[j] # Undefined} |-> r[k]])

RegisteredNames == {ToolCatalogue[i].name : i \in 1..Len(ToolCatalogue)}

UnknownNames ==
    {"render_diagram", "Export_Diagram_Formats", "export_diagram_formats ", ""}

SourceValues ==
    {Undefined, Str(""), Str(ShortSource), Str(LongSourceA), Str(LongSourceB),
     Str(MarkupSource)}

FormatValues ==
    {Undefined, Str("svg"), Str("png"), Str("pdf"), Str("html"), Str("SVG"), Str("jpeg")}

ThemeValues ==
    {Undefined, Str("default"), Str("dark"), Str("forest"), Str("nonexistent"),
     Str("constructor")}

PathValues ==
    {Str(""), Str("out/a.svg"), Str("out"), Str("/ro/a.svg"), Str("notes/a.svg"),
     Str("fresh/sub/"), Str("deep/dir/a.svg")}

GenerateArgs ==
    {Undefined} \cup
    {ObjOf([code |-> c, diagram_type |-> d, language |-> l, include_details |-> i]) :
        c \in {Undefined, Str("function f() { return 1; }")},
        d \in {Undefined, Str("auto"), Str("sequence")},
        l \in {Undefined, Str("typescript")},
        i \in {Undefined, Bool(FALSE), Bool(TRUE)}}

AnalyzeArgs ==
    {Undefined} \cup
    {ObjOf([diagram_code |-> c, analysis_type |-> a]) :
        c \in {Undefined, Str(ShortSource)},
        a \in {Undefined, Str("full"), Str("complexity")}}

SuggestArgs ==
    {Undefined} \cup
    {ObjOf([diagram_code |-> c, context |-> x, audience |-> a]) :
        c \in {Undefined, Str(""), Str(ShortSource)},
        x \in {Undefined, Str("onboarding")},
        a \in {Undefined, Str("general"), Str("technical")}}

WorkflowArgs ==
    {Undefined} \cup
    {ObjOf([workflow_description |-> d, workflow_type |-> t,
            include_decision_points |-> o[1], format |-> o[2]]) :
        d \in {Undefined, Str("x"), Str(FullDescription), Str(LongDescription)},
        t \in {Undefined, Str("cicd")},
        o \in ({Undefined, Bool(TRUE), Bool(FALSE)} \X {Undefined, Str("flowchart")})
              \cup ({Undefined}
                      \X {Str("sequence"), Str("state"), Str("gantt"), Str("mindmap")})}

ValidateArgs ==
    {Undefined} \cup
    {ObjOf([diagram_code |-> c, strict_mode |-> s, provide_suggestions |-> p]) :
        c \in {Undefined, Str(ShortSource)},
        s \in {Undefined, Bool(FALSE), Bool(TRUE)},
        p \in {Undefined, Bool(TRUE), Bool(FALSE)}}

\* Exports without output_path: every source and format with the default
\* theme, every theme for one source, and the sizes for one source.
InlineExportArgs ==
    {Undefined} \cup
    {ObjOf([diagram_code |-> c, format |-> fmt, output_path |-> Undefined,
            theme |-> Undefined, width |-> Undefined, height |-> Undefined]) :
        c \in SourceValues, fmt \in FormatValues}
    \cup
    {ObjOf([diagram_code |-> Str(ShortSource), format |-> fmt, output_path |-> Undefined,
            theme |-> th, width |-> Undefined, height |-> Undefined]) :
        fmt \in {Str("svg"), Str("png"), Str("html"), Str("SVG")}, th \in ThemeValues}
    \cup
    {ObjOf([diagram_code |-> Str(ShortSource), format |-> fmt, output_path |-> Undefined,
            theme |-> Undefined, width |-> w, height |-> h]) :
        fmt \in {Str("svg"), Str("png")},
        w \in {Undefined, Num(1920), Num(800)},
        h \in {Undefined, Num(1080), Num(600)}}

\* Exports with output_path: every path and format for one source, one export
\* with a theme, exports without a source, and PNG and PDF exports of the
\* empty source.
FileExportArgs ==
    {ObjOf([diagram_code |-> Str(ShortSource), format |-> fmt, output_path |-> p]) :
        fmt \in FormatValues \ {Str("jpeg")}, p \in PathValues}
    \cup
    {ObjOf([diagram_code |-> Str(ShortSource), format |-> Str("svg"),
            output_path |-> Str("out/a.svg"), theme |-> Str("dark")])}
    \cup
    {ObjOf([diagram_code |-> Undefined, format |-> fmt, output_path |-> p]) :
        fmt \in FormatValues \ {Str("jpeg")}, p \in {Str(""), Str("out/a.svg")}}
    \cup
    {ObjOf([diagram_code |-> Str(""), format |-> fmt, output_path |-> p]) :
        fmt \in {Str("png"), Str("pdf")}, p \in {Str("out/a.svg"), Str("/ro/a.svg")}}

(***************************************************************************)
(* The server as a state machine: a request arrives and is handled in one  *)
(* step; the response is then sent and the request's values are dropped.   *)
(***************************************************************************)
NoRequest == [method |-> "none"]

NoResponse == [thrown |-> FALSE, result |-> Undefined]

NoTrace ==
    [handler |-> "none", ran |-> <<>>, export |-> NoExport, failure |-> Undefined,
     message |-> Undefined, log |-> <<>>]

Idle == request = NoRequest

Init ==
    /\ fs = InitFS
    /\ fsBefore = InitFS
    /\ request = NoRequest
    /\ response = NoResponse
    /\ trace = NoTrace
    /\ listing = <<>>
    /\ calls = 0
    /\ inflight = <<>>
    /\ debug = Undefined

\* A tools/list request: the catalogue is the response.
ListTools ==
    /\ Idle
    /\ request' = [method |-> "tools/list"]
    /\ listing' = ToolCatalogue
    /\ response' = NoResponse
    /\ trace' = NoTrace
    /\ fsBefore' = fs
    /\ UNCHANGED <<fs, calls, inflight, debug>>

\* A tools/call request with the given name and arguments is handled to its
\* response in one step.
Call(name, args) ==
    \E r \in {CallToolHandler(fs, [method |-> "tools/call", name |-> name,
                                   arguments |-> args])} :
       /\ request' = [method |-> "tools/call", name |-> name, arguments |-> args]
       /\ response' = r.response
       /\ trace' = r.trace
       /\ fs' = r.fs
       /\ fsBefore' = fs
       /\ calls' = calls + 1
       /\ UNCHANGED <<listing, inflight, debug>>

\* The server takes a request when it is handling none.
Ready == Idle /\ calls < MaxCalls

CallGenerate ==
    /\ Ready
    /\ \E args \in GenerateArgs : Call("generate_diagram_from_code", args)

CallAnalyze ==
    /\ Ready
    /\ \E args \in AnalyzeArgs : Call("analyze_diagram_structure", args)

CallSuggest ==
    /\ Ready
    /\ \E args \in SuggestArgs : Call("suggest_diagram_improvements", args)

CallWorkflow ==
    /\ Ready
    /\ \E args \in WorkflowArgs : Call("create_workflow_diagram", args)

CallValidate ==
    /\ Ready
    /\ \E args \in ValidateArgs : Call("validate_diagram_syntax", args)

CallExportInline ==
    /\ Ready
    /\ \E args \in InlineExportArgs : Call("export_diagram_formats", args)

CallExportFile ==
    /\ Ready
    /\ \E args \in FileExportArgs : Call("export_diagram_formats", args)

CallUnknown ==
    /\ Ready
    /\ \E name \in UnknownNames :
          \E args \in {Undefined, ObjOf([diagram_code |-> Str(ShortSource),
                                         format |-> Str("svg"),
                                         output_path |-> Str("out/a.svg")])} :
              Call(name, args)

\* The response is sent; nothing of the request outlives it.
Deliver ==
    /\ ~Idle
    /\ request' = NoRequest
    /\ response' = NoResponse
    /\ trace' = NoTrace
    /\ listing' = <<>>
    /\ fsBefore' = fs
    /\ UNCHANGED <<fs, calls, inflight, debug>>

Next ==
    \/ ListTools
    \/ CallGenerate
    \/ CallAnalyze
    \/ CallSuggest
    \/ CallWorkflow
    \/ CallValidate
    \/ CallExportInline
    \/ CallExportFile
    \/ CallUnknown
    \/ Deliver

Spec == Init /\ [][Next]_vars

(***************************************************************************)
(* Export invocations in flight together.  A handler is an async function: *)
(* it runs without interruption up to an await and is resumed later, and   *)
(* other invocations may run in between.  The call handler awaits          *)
(* exportDiagramFormats, which awaits exportDiagram, which awaits the      *)
(* render method; the render method has no await, so the directory         *)
(* creation and the write of one invocation happen in the step in which    *)
(* the invocation begins.  inflight lists the invocations in the order in  *)
(* which they began.                                                       *)
(***************************************************************************)
\* How many export invocations are in flight together.
MaxInvocations == 2

\* Exports to two files of one directory that does not exist yet, and to a
\* file with the name of that directory.
ConcurrentExportArgs ==
    {ObjOf([diagram_code |-> Str(ShortSource), format |-> fmt, output_path |-> p]) :
        fmt \in {Str("svg"), Str("png")},
        p \in {Str("out/a.svg"), Str("out/b.svg"), Str("out")}}

\* What an invocation runs before its first suspension: the destructuring,
\* exportDiagram up to its await, and the whole render method.
RenderNow(f, options) ==
    FormatSwitch(f, options.diagramCode, options.format,
                 OrDefault(options.theme, Str("default")),
                 OrDefault(options.width, Num(DefaultWidth)),
                 OrDefault(options.height, Num(DefaultHeight)), options.outputPath)

BeginExport ==
    /\ Len(inflight) < MaxInvocations
    /\ \E args \in ConcurrentExportArgs :
          \E r \in {RenderNow(fs, ExportOptions(Destructure("export_diagram_formats",
                                                            args)))} :
             /\ inflight' = Append(inflight,
                                   [tool |-> "export_diagram_formats",
                                    arguments |-> args, stage |-> "rendered",
                                    rendered |-> r.out, out |-> r.out,
                                    response |-> NoResponse])
             /\ fs' = r.fs
    /\ UNCHANGED <<fsBefore, request, response, trace, listing, calls, debug>>

\* exportDiagram resumes: it returns the result, or catches, logs and rethrows.
ResumeExportDiagram ==
    /\ \E i \in 1..Len(inflight) :
          /\ inflight[i].stage = "rendered"
          /\ inflight' =
               [inflight EXCEPT
                  ![i].stage = "exported",
                  ![i].out =
                     ExportLogged([out |-> inflight[i].out, fs |-> fs],
                                  Prop(inflight[i].arguments, "format"),
                                  OrDefault(Prop(inflight[i].arguments, "theme"),
                                            Str("default"))).out]
    /\ UNCHANGED <<fs, fsBefore, request, response, trace, listing, calls, debug>>

\* exportDiagramFormats resumes: it builds its report, or rethrows.
ResumeExportDiagramFormats ==
    /\ \E i \in 1..Len(inflight) :
          /\ inflight[i].stage = "exported"
          /\ inflight' =
               [inflight EXCEPT
                  ![i].stage = "reported",
                  ![i].out =
                     ExportReport(Destructure("export_diagram_formats",
                                              inflight[i].arguments),
                                  <<>>,
                                  ExportOptions(Destructure("export_diagram_formats",
                                                            inflight[i].arguments)),
                                  [out |-> inflight[i].out, fs |-> fs, log |-> <<>>]).out]
    /\ UNCHANGED <<fs, fsBefore, request, response, trace, listing, calls, debug>>

\* The call handler resumes: it returns the report, or the error text.
ResumeCallTool ==
    /\ \E i \in 1..Len(inflight) :
          /\ inflight[i].stage = "reported"
          /\ inflight' =
               [inflight EXCEPT
                  ![i].stage = "done",
                  ![i].response = ToolBoundary(inflight[i].tool, inflight[i].out)]
    /\ UNCHANGED <<fs, fsBefore, request, response, trace, listing, calls, debug>>

NextConcurrent ==
    \/ BeginExport
    \/ ResumeExportDiagram
    \/ ResumeExportDiagramFormats
    \/ ResumeCallTool

SpecConcurrent == Init /\ [][NextConcurrent]_vars

(***************************************************************************)
(* Invocations of every tool in flight together.  generateDiagramFromCode  *)
(* awaits validateDiagramSyntax; the other tool methods have no await of   *)
(* their own and the call handler awaits their result; an unregistered     *)
(* name is answered by the catch without any await.  The continuation of   *)
(* an await is a job of the microtask queue, which runs every job it       *)
(* holds: a suspended invocation is resumed.                               *)
(***************************************************************************)
InterleavedGenerateArgs ==
    {Undefined, ObjOf([code |-> Str("function f() { return 1; }")])}

InterleavedToolCalls ==
    {[name |-> "analyze_diagram_structure",
      arguments |-> ObjOf([diagram_code |-> Str(ShortSource)])],
     [name |-> "validate_diagram_syntax", arguments |-> Undefined],
     [name |-> "render_diagram", arguments |-> Undefined]}

\* The diagram generateDiagramFromCode generates before it validates it.
GeneratedCode(a) ==
    generateDiagramCode(analyzeCodeStructure(a.code, a.language), a.diagram_type,
                        a.include_details)

\* generateDiagramFromCode resumed with the awaited validation: the report,
\* or the error rethrown.
GenerateResumed(a, awaited) ==
    GenerateReport(<<>>, analyzeCodeStructure(a.code, a.language), GeneratedCode(a),
                   [out |-> awaited, ran |-> <<>>, log |-> <<>>]).out

\* The await at which an invocation in a stage is suspended: the function
\* that waits and the method whose result it waits for.
AwaitedCall(stage) ==
    CASE stage = "rendered" ->
           [waiting |-> "MermaidRenderer.exportDiagram", on |-> "MermaidRenderer"]
      [] stage = "exported" ->
           [waiting |-> "MermaidTools.exportDiagramFormats", on |-> "MermaidRenderer"]
      [] stage = "validated" ->
           [waiting |-> "MermaidTools.generateDiagramFromCode", on |-> "MermaidTools"]
      [] stage = "reported" ->
           [waiting |-> "CallToolRequestSchema handler", on |-> "MermaidTools"]
      [] OTHER -> [waiting |-> "none", on |-> "none"]

\* generate_diagram_from_code begins: it runs up to the await of the
\* validation, or fails in its destructuring before it.
BeginGenerate ==
    /\ Len(inflight) < MaxInvocations
    /\ \E args \in InterleavedGenerateArgs :
          inflight' =
             Append(inflight,
                    IF args = Undefined
                    THEN [tool |-> "generate_diagram_from_code", arguments |-> args,
                          stage |-> "reported",
                          rendered |-> generateDiagramFromCode(args).out,
                          out |-> generateDiagramFromCode(args).out,
                          response |-> NoResponse]
                    ELSE [tool |-> "generate_diagram_from_code", arguments |-> args,
                          stage |-> "validated",
                          rendered |->
                             validateDiagramSyntax(
                                Obj([k \in {"diagram_code"} |->
                                       Str(GeneratedCode(
                                              Destructure("generate_diagram_from_code",
                                                          args)))])).out,
                          out |->
                             validateDiagramSyntax(
                                Obj([k \in {"diagram_code"} |->
                                       Str(GeneratedCode(
                                              Destructure("generate_diagram_from_code",
                                                          args)))])).out,
                          response |-> NoResponse])
    /\ UNCHANGED <<fs, fsBefore, request, response, trace, listing, calls, debug>>

\* generateDiagramFromCode resumes: it builds its report, or rethrows.
ResumeGenerate ==
    /\ \E i \in 1..Len(inflight) :
          /\ inflight[i].stage = "validated"
          /\ inflight' =
               [inflight EXCEPT
                  ![i].stage = "reported",
                  ![i].out =
                     GenerateResumed(Destructure("generate_diagram_from_code",
                                                 inflight[i].arguments),
                                     inflight[i].out)]
    /\ UNCHANGED <<fs, fsBefore, request, response, trace, listing, calls, debug>>

\* A tool whose method has no await begins: the method runs to its end and
\* the call handler awaits its result; an unregistered name is answered at
\* once.
BeginTool ==
    /\ Len(inflight) < MaxInvocations
    /\ \E c \in InterleavedToolCalls :
          \E r \in {Dispatch(fs, c.name, c.arguments)} :
             /\ inflight' =
                  Append(inflight,
                         [tool |-> c.name, arguments |-> c.arguments,
                          stage |-> IF r.handler = "default" THEN "done" ELSE "reported",
                          rendered |-> r.out, out |-> r.out,
                          response |-> IF r.handler = "default"
                                       THEN ToolBoundary(c.name, r.out)
                                       ELSE NoResponse])
             /\ fs' = r.fs
    /\ UNCHANGED <<fsBefore, request, response, trace, listing, calls, debug>>

\* An export into the directory that cannot be written begins: its write is
\* refused in the step in which it begins.
BeginExportRefused ==
    /\ Len(inflight) < MaxInvocations
    /\ \E args \in {ObjOf([diagram_code |-> Str(ShortSource), format |-> Str("svg"),
                           output_path |-> Str("/ro/a.svg")])} :
          \E r \in {RenderNow(fs, ExportOptions(Destructure("export_diagram_formats",
                                                            args)))} :
             /\ inflight' = Append(inflight,
                                   [tool |-> "export_diagram_formats",
                                    arguments |-> args, stage |-> "rendered",
                                    rendered |-> r.out, out |-> r.out,
                                    response |-> NoResponse])
             /\ fs' = r.fs
    /\ UNCHANGED <<fsBefore, request, response, trace, listing, calls, debug>>

NextInterleaved ==
    \/ BeginExport
    \/ BeginExportRefused
    \/ ResumeExportDiagram
    \/ ResumeExportDiagramFormats
    \/ BeginGenerate
    \/ ResumeGenerate
    \/ BeginTool
    \/ ResumeCallTool

SpecInterleaved ==
    /\ Init
    /\ [][NextInterleaved]_vars
    /\ WF_vars(ResumeExportDiagram)
    /\ WF_vars(ResumeExportDiagramFormats)
    /\ WF_vars(ResumeGenerate)
    /\ WF_vars(ResumeCallTool)

(***************************************************************************)
(* The report of validateDiagramSyntax over the results a syntax           *)
(* validation may give.  performSyntaxValidation is a stand-in that always *)
(* answers "valid"; the lines that format an invalid result are run here   *)
(* on results drawn from a bounded set.  request holds the result and the  *)
(* arguments, response the tool's answer.                                  *)
(***************************************************************************)
\* How many errors and how many suggestions a validation result lists.
MaxErrors == 2

ErrorList ==
    <<[line |-> 1, message |-> "Unknown diagram type"],
      [line |-> 4, message |-> "Expected arrow"],
      [line |-> 7, message |-> "Unclosed bracket"],
      [line |-> 9, message |-> "Unexpected end of input"]>>

SuggestionList ==
    <<"Start with a diagram type", "Use --> between nodes", "Close the bracket",
      "Remove the last line">>

ValidationResults ==
    {[isValid |-> v, diagramType |-> "flowchart", nodeCount |-> 3, complexity |-> "low",
      errors |-> SubSeq(ErrorList, 1, e), suggestions |-> SubSeq(SuggestionList, 1, g),
      correctedCode |-> c] :
        v \in BOOLEAN, e \in 0..Min(MaxErrors, Len(ErrorList)),
        g \in 0..Min(MaxErrors, Len(SuggestionList)),
        c \in {Undefined, Str(""), Str(ShortSource)}}

SuggestionChoices ==
    {Obj([k \in {"diagram_code"} |-> Str(ShortSource)])} \cup
    {Obj([k \in {"diagram_code", "provide_suggestions"} |->
            IF k = "diagram_code" THEN Str(ShortSource) ELSE Bool(b)]) : b \in BOOLEAN}

InitValidation ==
    /\ fs = InitFS
    /\ fsBefore = InitFS
    /\ request \in {[method |-> "validation", validation |-> v, arguments |-> a] :
                       v \in ValidationResults, a \in SuggestionChoices}
    /\ response = NoResponse
    /\ trace = NoTrace
    /\ listing = <<>>
    /\ calls = 0
    /\ inflight = <<>>
    /\ debug = Undefined

\* validateDiagramSyntax from the line after performSyntaxValidation, on the
\* result the request holds.
ReportValidation ==
    /\ request.method = "validation"
    /\ response = NoResponse
    /\ response' =
          [thrown |-> FALSE,
           result |-> TextResponse(
                         ValidationReport(
                            request.validation,
                            Destructure("validate_diagram_syntax",
                                        request.arguments).provide_suggestions))]
    /\ UNCHANGED <<fs, fsBefore, request, trace, listing, calls, inflight, debug>>

SpecValidation == InitValidation /\ [][ReportValidation]_vars

(***************************************************************************)
(* The logger and the DEBUG variable of the environment.  debug is         *)
(* process.env.DEBUG; a logger method is called, or a tool call is         *)
(* handled, and the variable may be set or unset at any time.  request     *)
(* holds the call of the logger method with the value DEBUG had, trace.log *)
(* the lines it wrote.                                                     *)
(***************************************************************************)
DebugValues == {Undefined, Str(""), Str("1")}

LogMessages == {"Rendering diagram to svg with theme default", "Export failed:"}

LoggedCalls ==
    {[name |-> "validate_diagram_syntax",
      arguments |-> ObjOf([diagram_code |-> Str(ShortSource)])],
     [name |-> "export_diagram_formats",
      arguments |-> ObjOf([diagram_code |-> Str(ShortSource), format |-> Str("svg"),
                           output_path |-> Str("/ro/a.svg")])],
     [name |-> "render_diagram", arguments |-> Undefined]}

InitLogging ==
    /\ fs = InitFS
    /\ fsBefore = InitFS
    /\ request = NoRequest
    /\ response = NoResponse
    /\ trace = NoTrace
    /\ listing = <<>>
    /\ calls = 0
    /\ inflight = <<>>
    /\ debug \in DebugValues

\* A call of a logger method that wrote the given lines.
Logged(level, message, lines) ==
    /\ request' = [method |-> "log", level |-> level, message |-> message, env |-> debug]
    /\ trace' = [NoTrace EXCEPT !.log = lines]
    /\ response' = NoResponse
    /\ calls' = calls + 1
    /\ UNCHANGED <<fs, fsBefore, listing, inflight, debug>>

LogInfo ==
    /\ Ready
    /\ \E message \in LogMessages :
          Logged("info", message, LoggerInfo("MermaidRenderer", message))

LogWarn ==
    /\ Ready
    /\ \E message \in LogMessages :
          Logged("warn", message, LoggerWarn("MermaidRenderer", message))

LogError ==
    /\ Ready
    /\ \E message \in LogMessages :
          Logged("error", message,
                 LoggerError("MermaidRenderer", message, Throw("EACCES")))

LogDebug ==
    /\ Ready
    /\ \E message \in LogMessages :
          Logged("debug", message, LoggerDebug(debug, "MermaidRenderer", message))

\* A tool call is handled, with the lines its handlers log.
CallLogged ==
    /\ Ready
    /\ \E c \in LoggedCalls : Call(c.name, c.arguments)

\* DEBUG is set, emptied or unset.
SetDebug ==
    /\ \E v \in DebugValues \ {debug} : debug' = v
    /\ UNCHANGED <<fs, fsBefore, request, response, trace, listing, calls, inflight>>

NextLogging ==
    \/ LogInfo
    \/ LogWarn
    \/ LogError
    \/ LogDebug
    \/ CallLogged
    \/ SetDebug
    \/ Deliver

SpecLogging == InitLogging /\ [][NextLogging]_vars

(***************************************************************************)
(* Properties.  They are stated on the state in which a request has been   *)
(* handled and its response not yet sent: request and response are the     *)
(* exchange, trace is what happened inside, fsBefore and fs the filesystem *)
(* before and after.                                                       *)
(***************************************************************************)
Called == request.method = "tools/call"

\* The text of the response's first block.
ResponseText == response.result.content[1].text

OneTextBlock ==
    /\ response.result = TextResponse(ResponseText)
    /\ Len(response.result.content) = 1
    /\ Len(ResponseText) > 0

\* The case labels of exportDiagram's switch.
SupportedFormats == {Str("svg"), Str("png"), Str("pdf"), Str("html")}

\* exportDiagram was called, with these options and this completion.
Exported == Called /\ trace.export.called

ExportedOptions == trace.export.options

ExportedOut == trace.export.out

\* C1: every tool call, whatever its name and arguments (an absent arguments
\* object included), is answered and not thrown; when the handler or anything
\* it calls fails, the answer is a response with exactly one text block, whose
\* text contains the tool name, the message of the failure that reached the
\* handler's catch and the message of the failure raised first.
C1_CallNeverThrows ==
    Called =>
        /\ ~response.thrown
        /\ response.result # Undefined
        /\ trace.failure # Undefined =>
              /\ OneTextBlock
              /\ Contains(ResponseText, request.name)
              /\ Contains(ResponseText, trace.message.v)
              /\ Contains(ResponseText, trace.failure.v)
              /\ ResponseText = "Error executing " \o request.name \o ": "
                                  \o trace.message.v

\* C1 (witness): an export to a read-only directory failed in writeFileSync and
\* was answered.
C1_WriteFailureAnswered ==
    /\ Called
    /\ request.name = "export_diagram_formats"
    /\ trace.failure # Undefined
    /\ Contains(trace.failure.v, "EACCES")
    /\ ~response.thrown

\* C2: a call of a name that is not registered is answered and not thrown, by
\* one text block that contains the name and "Unknown tool"; no handler runs
\* and the filesystem is as it was.
C2_UnknownToolAnswered ==
    (Called /\ request.name \notin RegisteredNames) =>
        /\ ~response.thrown
        /\ OneTextBlock
        /\ Contains(ResponseText, request.name)
        /\ Contains(ResponseText, "Unknown tool")
        /\ trace.handler = "default"
        /\ trace.ran = <<>>
        /\ ~trace.export.called
        /\ fs = fsBefore

\* C2 (witness): a name that differs from a registered one by case only was
\* called with arguments that would export to a file.
C2_UnknownToolCalled ==
    /\ Called
    /\ request.name = "Export_Diagram_Formats"
    /\ request.arguments # Undefined
    /\ ~response.thrown
    /\ Contains(ResponseText, "Unknown tool: Export_Diagram_Formats")

\* The names the listing declares required for a tool.
RequiredOf(name) ==
    UNION {ToolCatalogue[i].required :
             i \in {j \in 1..Len(ToolCatalogue) : ToolCatalogue[j].name = name}}

\* C3: a call of a registered tool whose arguments object lacks one of the
\* tool's required arguments always ends in an error outcome and never in the
\* tool's normal report.
C3_MissingRequiredRejected ==
    (/\ Called
     /\ request.name \in RegisteredNames
     /\ request.arguments # Undefined
     /\ \E k \in RequiredOf(request.name) : Prop(request.arguments, k) = Undefined)
    => /\ trace.failure # Undefined
       /\ Contains(ResponseText, "Error executing " \o request.name)

\* C4 (as stated): with a supported format, an ExportResult carries base64Data
\* and no outputPath when no output_path was passed, and outputPath and no
\* base64Data when one was passed, whatever its value (the empty string too).
C4_PathSuppliedSelectsFile ==
    (Exported /\ ExportedOut.ok /\ ExportedOptions.format \in SupportedFormats) =>
        IF ExportedOptions.outputPath = Undefined
        THEN /\ ExportedOut.value.base64Data # Undefined
             /\ ExportedOut.value.outputPath = Undefined
        ELSE /\ ExportedOut.value.outputPath # Undefined
             /\ ExportedOut.value.base64Data = Undefined

\* C4 (amended): with a supported format, an ExportResult carries outputPath
\* and no base64Data when a non-empty output_path was passed, and base64Data
\* and no outputPath when output_path was absent or the empty string.
C4_NonEmptyPathSelectsFile ==
    (Exported /\ ExportedOut.ok /\ ExportedOptions.format \in SupportedFormats) =>
        IF Truthy(ExportedOptions.outputPath)
        THEN /\ ExportedOut.value.outputPath
                  = Str(Resolve(ExportedOptions.outputPath.v))
             /\ ExportedOut.value.base64Data = Undefined
        ELSE /\ ExportedOut.value.base64Data # Undefined
             /\ IsString(ExportedOut.value.base64Data)
             /\ ExportedOut.value.outputPath = Undefined

\* C4 (witness): a PDF export with the empty string as output_path returned
\* base64Data, and the filesystem is as it was.
C4_EmptyPathExportedInline ==
    /\ Exported
    /\ ExportedOptions.format = Str("pdf")
    /\ ExportedOptions.outputPath = Str("")
    /\ ExportedOut.ok
    /\ ExportedOut.value.base64Data = Str(PdfBase64)
    /\ fs = fsBefore

\* C5: every ExportResult with success = true has exactly one of outputPath
\* and base64Data: never both, never neither.
C5_ExactlyOneDestination ==
    (Exported /\ ExportedOut.ok /\ ExportedOut.value.success) =>
        (ExportedOut.value.outputPath = Undefined)
          # (ExportedOut.value.base64Data = Undefined)

\* C5 (witness): an SVG export wrote a file and its result carries the path.
C5_FileResultReturned ==
    /\ Exported
    /\ ExportedOptions.format = Str("svg")
    /\ ExportedOut.ok
    /\ ExportedOut.value.success
    /\ ExportedOut.value.outputPath = Str("/work/out/a.svg")
    /\ "/work/out/a.svg" \in DOMAIN fs.files

\* C6 (as stated): exportDiagram with a supported format (and a diagram source
\* that is a string, as ExportOptions types it) returns an ExportResult with
\* success = true, whatever the other options are (an output path that cannot
\* be written included).
C6_SupportedFormatSucceeds ==
    (/\ Exported
     /\ ExportedOptions.format \in SupportedFormats
     /\ IsString(ExportedOptions.diagramCode)) =>
        /\ ExportedOut.ok
        /\ ExportedOut.value.success

\* C6 (amended): exportDiagram with a supported format and a diagram source
\* that is a string returns an ExportResult with success = true, unless a
\* non-empty output path is given and writing the file there fails: then it
\* fails with the error of the write, and no file is written.
C6_SupportedFormatFailsOnWrite ==
    (/\ Exported
     /\ ExportedOptions.format \in SupportedFormats
     /\ IsString(ExportedOptions.diagramCode)) =>
        IF /\ Truthy(ExportedOptions.outputPath)
           /\ ~writeFileSync(ensureDirectoryExists(fsBefore,
                                                   ExportedOptions.outputPath.v),
                             ExportedOptions.outputPath.v, "").out.ok
        THEN /\ ~ExportedOut.ok
             /\ ExportedOut
                  = writeFileSync(ensureDirectoryExists(fsBefore,
                                                        ExportedOptions.outputPath.v),
                                  ExportedOptions.outputPath.v, "").out
             /\ fs.files = fsBefore.files
             /\ trace.failure = Str(ExportedOut.message)
        ELSE /\ ExportedOut.ok
             /\ ExportedOut.value.success

\* C6 (witness): an HTML export into a directory that cannot be written failed
\* with the error of the write.
C6_UnwritablePathFailed ==
    /\ Exported
    /\ ExportedOptions.format = Str("html")
    /\ ExportedOptions.outputPath = Str("/ro/a.svg")
    /\ ~ExportedOut.ok
    /\ ExportedOut.message = "EACCES: permission denied, open '/ro/a.svg'"

\* C7: the format switch is closed over svg, png, pdf and html: for any other
\* format value (another case, a missing format) exportDiagram fails with
\* "Unsupported format: " and the value, nothing is written, and the tool call
\* answers with an error text and no export report; and exportDiagram fails
\* with this error for no supported format.
C7_FormatSwitchClosed ==
    Exported =>
        /\ ExportedOptions.format \notin SupportedFormats =>
              /\ ~ExportedOut.ok
              /\ ExportedOut.message
                   = "Unsupported format: " \o ToStr(ExportedOptions.format)
              /\ fs = fsBefore
              /\ ~response.thrown
              /\ ResponseText
                   = "Error executing export_diagram_formats: Failed to export diagram: "
                       \o "Unsupported format: " \o ToStr(ExportedOptions.format)
              /\ ~Contains(ResponseText, "Diagram Export Complete")
        /\ ExportedOptions.format \in SupportedFormats =>
              (ExportedOut.ok \/ ~Contains(ExportedOut.message, "Unsupported format"))

\* C7 (witness): an export with format "SVG" was refused and answered.
C7_UpperCaseFormatRefused ==
    /\ Exported
    /\ ExportedOptions.format = Str("SVG")
    /\ ~ExportedOut.ok
    /\ Contains(ResponseText, "Unsupported format: SVG")

C9_SchemaMatchesDestructuring ==
    listing # <<>> =>
        /\ {listing[i].name : i \in 1..Len(listing)} = DOMAIN Destructuring
        /\ Len(listing) = 6
        /\ \A i \in 1..Len(listing) :
              /\ DOMAIN listing[i].properties = DOMAIN Destructuring[listing[i].name]
              /\ \A k \in listing[i].required :
                    /\ k \in DOMAIN Destructuring[listing[i].name]
                    /\ Destructuring[listing[i].name][k] = Undefined
              /\ \A k \in DOMAIN listing[i].properties :
                    listing[i].properties[k].default
                      = Destructuring[listing[i].name][k]

\* C10: an SVG export with a theme name outside default, dark, forest and
\* neutral raises no error, returns success = true, and produces the SVG that
\* theme "default" produces for the same source, with the default palette
\* (node fill #fff, stroke #333).
C10_UnknownThemeIsDefault ==
    (/\ Exported
     /\ ExportedOptions.format = Str("svg")
     /\ IsString(ExportedOptions.theme)
     /\ ExportedOptions.theme.v \notin {"default", "dark", "forest", "neutral"}
     /\ IsString(ExportedOptions.diagramCode)
     /\ ~Truthy(ExportedOptions.outputPath)) =>
        /\ ExportedOut.ok
        /\ ExportedOut.value.success
        /\ getThemeColors(ExportedOptions.theme) = Palette("#fff", "#333", "#333", "#333")
        /\ ExportedOut.value.base64Data
             = Str(Base64Encode(generateSVGTemplate(ExportedOptions.diagramCode,
                                                    Str("default")).value))

\* C11: an export without output_path (absent or empty) and a call of any
\* other tool perform no filesystem operation: the only step that changes the
\* filesystem is an export with a non-empty output_path, so after any sequence
\* of inline exports and calls of the five other tools the filesystem is
\* exactly as it was before the sequence.
C11_InlineExportLeavesFilesystem ==
    [][(~(/\ request'.method = "tools/call"
          /\ request'.name = "export_diagram_formats"
          /\ request'.arguments # Undefined
          /\ Truthy(Prop(request'.arguments, "output_path"))))
       => fs' = fs]_vars

\* C11 (witness): the second of two calls was an inline HTML export that
\* succeeded, and the filesystem is still the initial one.
C11_InlineExportsDone ==
    /\ calls = 2
    /\ Exported
    /\ ExportedOptions.format = Str("html")
    /\ ExportedOptions.outputPath = Undefined
    /\ ExportedOut.ok
    /\ fs = InitFS

\* C12: a successful export with a (non-empty) output_path P writes exactly
\* one file, at the absolute resolution of P, after creating the directories
\* above it that were missing; every other file keeps its content, no other
\* directory appears, and the reported outputPath is the absolute resolution
\* of P.
C12_FileExportWritesOneFile ==
    (Exported /\ ExportedOut.ok /\ Truthy(ExportedOptions.outputPath)) =>
        /\ IsAbsolute(ExportedOut.value.outputPath.v)
        /\ ExportedOut.value.outputPath = Str(Resolve(ExportedOptions.outputPath.v))
        /\ DOMAIN fs.files = DOMAIN fsBefore.files \cup {ExportedOut.value.outputPath.v}
        /\ Len(fs.files[ExportedOut.value.outputPath.v]) > 0
        /\ \A q \in DOMAIN fsBefore.files \ {ExportedOut.value.outputPath.v} :
              fs.files[q] = fsBefore.files[q]
        /\ fs.dirs
             = fsBefore.dirs
                 \cup {JoinAbs(SubSeq(Segments(ExportedOut.value.outputPath.v), 1, k)) :
                         k \in 0..(Len(Segments(ExportedOut.value.outputPath.v)) - 1)}

\* C12 (witness): an export to deep/dir/a.svg, below two directories that did
\* not exist, succeeded: both directories and the file are there, and the file
\* that existed before is untouched.
C12_NestedDirectoriesCreated ==
    /\ Exported
    /\ ExportedOut.ok
    /\ ExportedOptions.outputPath = Str("deep/dir/a.svg")
    /\ ExportedOut.value.outputPath = Str("/work/deep/dir/a.svg")
    /\ "/work/deep" \notin fsBefore.dirs
    /\ {"/work/deep", "/work/deep/dir"} \subseteq fs.dirs
    /\ "/work/deep/dir/a.svg" \in DOMAIN fs.files
    /\ fs.files["/work/notes"] = "kept"

\* C13: export is deterministic: the file a successful export writes holds
\* the bytes that exportDiagram with the same format, source, theme, width and
\* height writes to a fresh path of the initial filesystem; so two exports
\* with identical options, each to a fresh path, leave identical contents,
\* for each of the four formats.
C13_ExportDeterministic ==
    (Exported /\ ExportedOut.ok /\ Truthy(ExportedOptions.outputPath)) =>
        /\ exportDiagram(InitFS,
                         [ExportedOptions EXCEPT !.outputPath = Str("again.out")]).out.ok
        /\ fs.files[Resolve(ExportedOptions.outputPath.v)]
             = exportDiagram(InitFS,
                             [ExportedOptions EXCEPT !.outputPath = Str("again.out")])
                 .fs.files["/work/again.out"]

\* C13 (witness): two exports, the first to deep/dir/a.svg and the second, an
\* SVG export, to out/a.svg, both paths fresh, left the same bytes in both
\* files.
C13_TwoFreshExportsAgree ==
    /\ calls = 2
    /\ Exported
    /\ ExportedOut.ok
    /\ ExportedOptions.format = Str("svg")
    /\ ExportedOptions.outputPath = Str("out/a.svg")
    /\ "/work/out/a.svg" \notin DOMAIN fsBefore.files
    /\ "/work/deep/dir/a.svg" \in DOMAIN fsBefore.files
    /\ fs.files["/work/out/a.svg"] = fs.files["/work/deep/dir/a.svg"]

\* C14 (as stated): exportDiagram with format png or pdf and the empty string
\* as diagram source never fails, with or without output_path, and inline its
\* base64Data is the constant of the format.
C14_PlaceholderNeverFails ==
    (/\ Exported
     /\ ExportedOptions.format \in {Str("png"), Str("pdf")}
     /\ ExportedOptions.diagramCode = Str("")) =>
        /\ ExportedOut.ok
        /\ ~Truthy(ExportedOptions.outputPath) =>
              ExportedOut.value.base64Data
                = (IF ExportedOptions.format = Str("png") THEN Str(PngBase64)
                   ELSE Str(PdfBase64))

\* C14 (amended): exportDiagram with format png or pdf and no (or an empty)
\* output_path never fails, whatever the source (the empty string too), and
\* its base64Data is the constant of the format, the same for every source,
\* theme, width and height; with the empty string as source and a non-empty
\* output_path it fails exactly when writing the file fails, and otherwise
\* writes the placeholder text of the format.
C14_PlaceholderFailsOnlyOnWrite ==
    (Exported /\ ExportedOptions.format \in {Str("png"), Str("pdf")}) =>
        /\ ~Truthy(ExportedOptions.outputPath) =>
              /\ ExportedOut.ok
              /\ ExportedOut.value.success
              /\ ExportedOut.value.base64Data
                   = (IF ExportedOptions.format = Str("png") THEN Str(PngBase64)
                      ELSE Str(PdfBase64))
        /\ (ExportedOptions.diagramCode = Str("") /\ Truthy(ExportedOptions.outputPath)) =>
              /\ ExportedOut.ok
                   <=> writeFileSync(ensureDirectoryExists(fsBefore,
                                                           ExportedOptions.outputPath.v),
                                     ExportedOptions.outputPath.v, "").out.ok
              /\ ExportedOut.ok =>
                    fs.files[Resolve(ExportedOptions.outputPath.v)]
                      = (IF ExportedOptions.format = Str("png") THEN "PNG" ELSE "PDF")
                          \o " export placeholder for diagram: ..."

\* C14 (witness): a PNG export of the empty source into a directory that
\* cannot be written failed.
C14_EmptySourceWriteFailed ==
    /\ Exported
    /\ ExportedOptions.format = Str("png")
    /\ ExportedOptions.diagramCode = Str("")
    /\ ExportedOptions.outputPath = Str("/ro/a.svg")
    /\ ~ExportedOut.ok
    /\ Contains(ExportedOut.message, "EACCES")

\* C15: every response of the call handler, on success and on error, for the
\* six tools and for unknown names, has at least one content block, and every
\* block is a text block with a text.
C15_ResponseIsTextBlocks ==
    Called =>
        /\ ~response.thrown
        /\ Len(response.result.content) >= 1
        /\ \A i \in 1..Len(response.result.content) :
              /\ response.result.content[i].type = "text"
              /\ DOMAIN response.result.content[i] = {"type", "text"}

\* C15 (witness): a successful PNG export, which produces image data, was
\* answered with text alone.
C15_ExportAnsweredWithText ==
    /\ Exported
    /\ ExportedOptions.format = Str("png")
    /\ ExportedOut.ok
    /\ trace.failure = Undefined
    /\ Len(response.result.content) = 1
    /\ response.result.content[1].type = "text"

\* C16: a tool is resolved by exact string match: a call runs a handler
\* exactly when its name is one the listing returns, a listed name runs its
\* own handler and no other, every other name (one that differs by case or by
\* a blank included) takes the default case, and the names the listing returns
\* are exactly the names that are dispatched to a handler.
C16_ExactNameResolution ==
    /\ Called =>
          /\ (request.name \in {ToolCatalogue[i].name : i \in 1..Len(ToolCatalogue)})
               <=> (trace.handler # "default")
          /\ trace.handler
               = (CASE request.name = "generate_diagram_from_code" ->
                         "generateDiagramFromCode"
                    [] request.name = "analyze_diagram_structure" ->
                         "analyzeDiagramStructure"
                    [] request.name = "suggest_diagram_improvements" ->
                         "suggestDiagramImprovements"
                    [] request.name = "create_workflow_diagram" -> "createWorkflowDiagram"
                    [] request.name = "export_diagram_formats" -> "exportDiagramFormats"
                    [] request.name = "validate_diagram_syntax" -> "validateDiagramSyntax"
                    [] OTHER -> "default")
          /\ IF trace.handler = "default"
             THEN /\ trace.ran = <<>>
                  /\ ResponseText = "Error executing " \o request.name
                                      \o ": Unknown tool: " \o request.name
             ELSE /\ trace.ran # <<>>
                  /\ trace.ran[1] = trace.handler
                  /\ \A i \in 1..Len(trace.ran) :
                        trace.ran[i] \in {trace.handler, "validateDiagramSyntax",
                                          "exportDiagram"}
    /\ listing # <<>> =>
          {listing[i].name : i \in 1..Len(listing)}
            = {n \in RegisteredNames \cup UnknownNames :
                 Dispatch(fs, n, Undefined).handler # "default"}

\* C16 (witness): the name of the export tool followed by a blank was called
\* and took the default case.
C16_NameWithBlankUnknown ==
    /\ Called
    /\ request.name = "export_diagram_formats "
    /\ request.arguments # Undefined
    /\ trace.handler = "default"
    /\ ~trace.export.called

\* C17: for an export_diagram_formats call without output_path that
\* succeeds, the response carries the base64Data of the ExportResult: some
\* block of it holds the encoded payload.
C17_InlinePayloadReturned ==
    (/\ Exported
     /\ ExportedOut.ok
     /\ ~Truthy(ExportedOptions.outputPath)) =>
        \E i \in 1..Len(response.result.content) :
            \/ Contains(response.result.content[i].text, ExportedOut.value.base64Data.v)
            \/ /\ "data" \in DOMAIN response.result.content[i]
               /\ response.result.content[i].data = ExportedOut.value.base64Data.v

\* C18: for an SVG export without output_path that succeeds, base64Data is
\* not empty, size is a number followed by "KB", and decoding base64Data
\* gives exactly the generated SVG document: it contains "<svg" and, for
\* theme dark, the stroke colour #d4d4d4, and it is what the same options with
\* an output_path write to the file.
C18_InlineSvgDecodes ==
    (/\ Exported
     /\ ExportedOut.ok
     /\ ExportedOptions.format = Str("svg")
     /\ ~Truthy(ExportedOptions.outputPath)) =>
        /\ IsString(ExportedOut.value.base64Data)
        /\ Len(ExportedOut.value.base64Data.v) > 0
        /\ Len(ExportedOut.value.base64Data.v) % 4 = 0
        /\ \E n \in 0..Len(ExportedOut.value.base64Data.v) :
              ExportedOut.value.size = ToString(n) \o "KB"
        /\ \E doc \in {Base64Decode(ExportedOut.value.base64Data.v)} :
              /\ doc = generateSVGTemplate(ExportedOptions.diagramCode,
                                           ExportedOptions.theme).value
              /\ Contains(doc, "<svg")
              /\ ExportedOptions.theme = Str("dark") =>
                    Contains(doc, "stroke: #d4d4d4;")
              /\ doc = exportDiagram(InitFS,
                                     [ExportedOptions EXCEPT
                                        !.outputPath = Str("again.svg")])
                         .fs.files["/work/again.svg"]

\* C18 (witness): an inline SVG export with theme dark succeeded.
C18_DarkSvgExportedInline ==
    /\ Exported
    /\ ExportedOut.ok
    /\ ExportedOptions.format = Str("svg")
    /\ ExportedOptions.theme = Str("dark")
    /\ ExportedOptions.outputPath = Undefined
    /\ ExportedOut.value.size = "1KB"
    /\ Len(ExportedOut.value.base64Data.v) > 1000

TargetOf(i) == Resolve(Prop(inflight[i].arguments, "output_path").v)

\* The directories above an absolute path.
DirectoriesAbove(abs) ==
    {JoinAbs(SubSeq(Segments(abs), 1, k)) : k \in 0..(Len(Segments(abs)) - 1)}

\* The invocations in flight run one after another, in the order in which
\* they began: the outcome of the k-th, from the filesystem the ones before
\* it leave.
RECURSIVE OneAfterAnother(_)
OneAfterAnother(k) ==
    CallToolHandler(IF k = 1 THEN InitFS ELSE OneAfterAnother(k - 1).fs,
                    [method |-> "tools/call", name |-> "export_diagram_formats",
                     arguments |-> inflight[k].arguments])

\* C20 (as stated): when the export invocations in flight target different
\* output paths, every one of them completes successfully and its file holds
\* its own payload, however their steps interleave.
C20_DifferentPathsAllSucceed ==
    \A i \in 1..Len(inflight) :
        (\A j \in 1..Len(inflight) \ {i} : TargetOf(j) # TargetOf(i)) =>
            /\ inflight[i].rendered.ok
            /\ TargetOf(i) \in DOMAIN fs.files
            /\ fs.files[TargetOf(i)] = OneAfterAnother(i).fs.files[TargetOf(i)]
            /\ inflight[i].stage = "done" =>
                  Contains(inflight[i].response.result.content[1].text,
                           "# Diagram Export Complete")

\* C20 (amended): however the steps of the export invocations in flight
\* interleave, each invocation gets the result, and leaves the filesystem,
\* that it gets when the invocations run one after another in the order in
\* which they began; and an invocation whose output path differs from every
\* other one's, is not a directory above another one's and lies below none of
\* them completes successfully with its file holding its own payload: the
\* creation of a parent directory they share makes none of them fail.
C20_InterleavingIsSequential ==
    /\ \A i \in 1..Len(inflight) :
          /\ inflight[i].rendered = OneAfterAnother(i).trace.export.out
          /\ inflight[i].stage = "done" =>
                inflight[i].response = OneAfterAnother(i).response
          /\ (\A j \in 1..Len(inflight) \ {i} :
                 /\ TargetOf(j) # TargetOf(i)
                 /\ TargetOf(j) \notin DirectoriesAbove(TargetOf(i))
                 /\ TargetOf(i) \notin DirectoriesAbove(TargetOf(j))) =>
                /\ inflight[i].rendered.ok
                /\ TargetOf(i) \in DOMAIN fs.files
                /\ fs.files[TargetOf(i)] = OneAfterAnother(i).fs.files[TargetOf(i)]
                /\ inflight[i].stage = "done" =>
                      Contains(inflight[i].response.result.content[1].text,
                               "# Diagram Export Complete")
    /\ inflight # <<>> => fs = OneAfterAnother(Len(inflight)).fs

\* C20 (witness): two invocations write out/a.svg and out/b.svg; the second
\* began, created nothing new above its file and is done while the first is
\* still suspended, and both files hold their payloads.
C20_SharedParentInterleaved ==
    /\ Len(inflight) = 2
    /\ TargetOf(1) = "/work/out/a.svg"
    /\ TargetOf(2) = "/work/out/b.svg"
    /\ inflight[1].stage = "rendered"
    /\ inflight[2].stage = "done"
    /\ inflight[1].rendered.ok
    /\ inflight[2].rendered.ok
    /\ {"/work/out/a.svg", "/work/out/b.svg"} \subseteq DOMAIN fs.files
    /\ Contains(inflight[2].response.result.content[1].text, "# Diagram Export Complete")

C22_FailedExportLeavesFilesystem ==
    (/\ Called
     /\ request.name = "export_diagram_formats"
     /\ Contains(ResponseText, "Error executing export_diagram_formats: ")) =>
        fs = fsBefore

\* C23: directory creation before a write is idempotent and silent.  An export
\* of a supported format whose parent directory exists and can be written
\* succeeds, leaves the directories and every other file as they were and
\* reports nothing about the directory; when the creation of the directory
\* fails, the caller is told the error of the write that follows and nothing
\* about mkdir; and such an export fails with the error of the write only.
C23_DirectoryCreationSilent ==
    (/\ Exported
     /\ ExportedOptions.format \in SupportedFormats
     /\ IsString(ExportedOptions.diagramCode)
     /\ Truthy(ExportedOptions.outputPath)) =>
        LET path == ExportedOptions.outputPath.v
            abs == Resolve(ExportedOptions.outputPath.v)
            parent == Resolve(DirName(Resolve(ExportedOptions.outputPath.v)))
        IN /\ (/\ parent \in fsBefore.dirs \ ReadOnlyDirs
               /\ abs \notin fsBefore.dirs
               /\ ~EndsWithSlash(path)) =>
                  /\ ExportedOut.ok
                  /\ fs.dirs = fsBefore.dirs
                  /\ \A q \in DOMAIN fsBefore.files \ {abs} :
                        q \in DOMAIN fs.files /\ fs.files[q] = fsBefore.files[q]
                  /\ Contains(ResponseText, "# Diagram Export Complete")
                  /\ ~Contains(ResponseText, "mkdir")
                  /\ ~Contains(ResponseText, "EEXIST")
           /\ ~mkdirSync(fsBefore, DirName(path)).out.ok =>
                  /\ ~ExportedOut.ok
                  /\ ~Contains(ResponseText, "mkdir")
                  /\ ~Contains(ResponseText, "EEXIST")
           /\ ~ExportedOut.ok =>
                  /\ Contains(ExportedOut.message, ", open '" \o path \o "'")
                  /\ Contains(ResponseText, ", open '" \o path \o "'")

\* C23 (witness): a second export into out, the directory the first export
\* created, succeeded and replaced the first one's file.
C23_RepeatedExportSucceeded ==
    /\ Exported
    /\ ExportedOut.ok
    /\ ExportedOptions.outputPath = Str("out/a.svg")
    /\ "/work/out" \in fsBefore.dirs
    /\ "/work/out/a.svg" \in DOMAIN fsBefore.files
    /\ fs.files["/work/out/a.svg"] # fsBefore.files["/work/out/a.svg"]
    /\ fs.dirs = fsBefore.dirs

\* How many times sub occurs in s.
Occurrences(s, sub) ==
    Cardinality({i \in 1..(Len(s) - Len(sub) + 1) : SubSeq(s, i, i + Len(sub) - 1) = sub})

\* C24: validity is data, not a failure.  For a validation result with
\* isValid = false, validate_diagram_syntax returns a normal response of one
\* text block, marked invalid, with one "Line n" entry per error; the suggested
\* fixes are there exactly when provide_suggestions holds (true, or left out)
\* and the result lists suggestions, and the corrected code is there exactly
\* when the fixes are there and the result has a corrected code.
C24_InvalidIsReportedAsData ==
    (/\ request.method = "validation"
     /\ response # NoResponse
     /\ ~request.validation.isValid) =>
        /\ ~response.thrown
        /\ OneTextBlock
        /\ Contains(ResponseText, CrossMark \o " **Invalid syntax found**")
        /\ ~Contains(ResponseText, CheckMark)
        /\ Occurrences(ResponseText, "- **Line ") = Len(request.validation.errors)
        /\ \A i \in 1..Len(request.validation.errors) :
              Contains(ResponseText,
                       "- **Line " \o ToString(request.validation.errors[i].line)
                         \o "**: " \o request.validation.errors[i].message)
        /\ Contains(ResponseText, "## Suggested Fixes")
             <=> /\ Prop(request.arguments, "provide_suggestions") # Bool(FALSE)
                 /\ Len(request.validation.suggestions) > 0
        /\ Contains(ResponseText, "## Suggested Fixes") =>
              \A i \in 1..Len(request.validation.suggestions) :
                 Contains(ResponseText, "- " \o request.validation.suggestions[i])
        /\ Contains(ResponseText, "## Corrected Code")
             <=> /\ Contains(ResponseText, "## Suggested Fixes")
                 /\ request.validation.correctedCode \notin {Undefined, Str("")}
        /\ Contains(ResponseText, "## Corrected Code") =>
              Contains(ResponseText, ToStr(request.validation.correctedCode))

\* C24 (witness): an invalid result with two errors, suggestions and a
\* corrected code is reported with its two lines, the fixes and the code.
C24_InvalidWithFixesReported ==
    /\ request.method = "validation"
    /\ response # NoResponse
    /\ ~request.validation.isValid
    /\ Len(request.validation.errors) = 2
    /\ Contains(ResponseText, "- **Line 1**: Unknown diagram type\n- **Line 4**: Expected arrow")
    /\ Contains(ResponseText, "## Suggested Fixes\n- Start with a diagram type")
    /\ Contains(ResponseText, "## Corrected Code")

\* The request being handled writes a file: an export with an output path.
WritesFile ==
    /\ request.name = "export_diagram_formats"
    /\ request.arguments # Undefined
    /\ Truthy(Prop(request.arguments, "output_path"))

\* The output path of the request and the directories above it are, before
\* the call, what they were when the server started.
TargetAsAtStart ==
    \A d \in DirectoriesAbove(Resolve(Prop(request.arguments, "output_path").v))
               \cup {Resolve(Prop(request.arguments, "output_path").v)} :
       /\ d \in fsBefore.dirs <=> d \in InitFS.dirs
       /\ d \in DOMAIN fsBefore.files <=> d \in DOMAIN InitFS.files

\* C25 (as stated): the response to a tool call is a function of the request
\* alone: after any history of earlier calls it is the response the same
\* request gets as the first call; and the catalogue listed is always the same.
C25_ResponseFunctionOfRequest ==
    /\ Called => response = CallToolHandler(InitFS, request).response
    /\ request.method = "tools/list" => listing = ToolCatalogue

\* C25 (amended): the response to a tool call is a function of the request and
\* of the files at its output path.  For a call that writes no file (every
\* tool but export, and export without output path) it is the response the
\* same request gets as the first call, and the filesystem stays as it was;
\* for an export with an output path it is what the handler gives for the
\* request on the filesystem as the call found it, and when the path, with the
\* directories above it, is as it was at the start, it is the response of the
\* first call too; and the catalogue listed is always the same.
C25_ResponseFunctionOfRequestAndFiles ==
    /\ Called =>
          IF WritesFile
          THEN /\ response = CallToolHandler(fsBefore, request).response
               /\ TargetAsAtStart =>
                     response = CallToolHandler(InitFS, request).response
          ELSE /\ response = CallToolHandler(InitFS, request).response
               /\ fs = fsBefore
    /\ request.method = "tools/list" => listing = ToolCatalogue

\* C25 (witness): an export to out/a.svg is refused because an earlier export
\* left a regular file out, while the same request as the first call succeeds.
C25_EarlierExportChangedResponse ==
    /\ Called
    /\ calls = 2
    /\ WritesFile
    /\ Prop(request.arguments, "output_path") = Str("out/a.svg")
    /\ "/work/out" \in DOMAIN fsBefore.files
    /\ Contains(ResponseText, "Error executing export_diagram_formats: ")
    /\ Contains(CallToolHandler(InitFS, request).response.result.content[1].text,
                "# Diagram Export Complete")

\* The document of the export just handled: the file written, or the decoded
\* base64Data.
ExportedDocument ==
    IF Truthy(ExportedOptions.outputPath)
    THEN fs.files[ExportedOut.value.outputPath.v]
    ELSE Base64Decode(ExportedOut.value.base64Data.v)

\* The first position from which sub occurs in s; past the end when none.
IndexOf(s, sub) ==
    IF Contains(s, sub)
    THEN CHOOSE i \in 1..Len(s) :
            /\ SubSeq(s, i, i + Len(sub) - 1) = sub
            /\ \A j \in 1..(i - 1) : SubSeq(s, j, j + Len(sub) - 1) # sub
    ELSE Len(s) + 1

\* What an SVG document draws: its text after the end of its first comment,
\* which is the first "-->" it holds.
Drawn(doc) == SubSeq(doc, IndexOf(doc, "-->") + 3, Len(doc))

\* C26: the generated SVG depends on the source only through its first 50
\* characters: a source with the same first 50 characters gives, with the same
\* theme, the same SVG, and no character after the 50th is in it; and the
\* drawing is always the two fixed nodes and the one edge (and nothing else
\* drawn: three text-free shapes, two labels, one marker) on a canvas of
\* 400 by 300.
C26_SvgFromFirstFiftyCharacters ==
    (/\ Exported
     /\ ExportedOut.ok
     /\ ExportedOptions.format = Str("svg")) =>
        \E doc \in {ExportedDocument} :
           /\ \A other \in {ShortSource, LongSourceA, LongSourceB, MarkupSource} :
                 SubSeq(other, 1, Min(50, Len(other)))
                    = SubSeq(ExportedOptions.diagramCode.v, 1,
                             Min(50, Len(ExportedOptions.diagramCode.v))) =>
                    doc = generateSVGTemplate(Str(other), ExportedOptions.theme).value
           /\ Len(ExportedOptions.diagramCode.v) > 50 =>
                 ~Contains(doc, SubSeq(ExportedOptions.diagramCode.v, 1, 51))
           /\ Contains(doc, "<svg width=\"400\" height=\"300\"")
           /\ Occurrences(Drawn(doc), "<rect ") = 2
           /\ Occurrences(Drawn(doc), "<line ") = 1
           /\ Occurrences(Drawn(doc), "<") = 13

\* C27: the generated HTML embeds the whole source as it is, not truncated and
\* not escaped, inside the diagram container, and passes the theme name as it
\* is to mermaid.initialize; the dark colours are used exactly when the theme
\* is dark, the light ones for every other theme name.
C27_HtmlEmbedsWholeSource ==
    (/\ Exported
     /\ ExportedOut.ok
     /\ ExportedOptions.format = Str("html")
     /\ IsString(ExportedOptions.diagramCode)
     /\ IsString(ExportedOptions.theme)) =>
        \E doc \in {ExportedDocument} :
           /\ Contains(doc, "<div class=\"diagram-container\">\n        "
                              \o "<h1>Generated Diagram</h1>\n        "
                              \o "<div class=\"mermaid\">\n"
                              \o ExportedOptions.diagramCode.v
                              \o "\n        </div>\n    </div>")
           /\ Contains(doc, "mermaid.initialize({ \n            startOnLoad: true,\n"
                              \o "            theme: '" \o ExportedOptions.theme.v \o "',")
           /\ Contains(doc, "background: #1e1e1e; color: #d4d4d4;")
                <=> ExportedOptions.theme = Str("dark")
           /\ Contains(doc, "background: white; color: black;")
                <=> ExportedOptions.theme # Str("dark")

\* C27 (witness): an HTML export of a source of more than 50 characters
\* succeeded.
C27_LongSourceExportedAsHtml ==
    /\ Exported
    /\ ExportedOut.ok
    /\ ExportedOptions.format = Str("html")
    /\ ExportedOptions.diagramCode = Str(LongSourceB)
    /\ Len(LongSourceB) > 50
    /\ Contains(ExportedDocument, "    Z --> Y\n        </div>")

\* The payload of the i-th invocation in flight: what its export writes to a
\* fresh path.
PayloadOf(i) ==
    exportDiagram(InitFS,
                  [ExportOptions(Destructure("export_diagram_formats",
                                             inflight[i].arguments))
                     EXCEPT !.outputPath = Str("payload")]).fs.files["/work/payload"]

\* The i-th and the j-th invocation in flight are exports to one output path,
\* and no export to this path began after the j-th.
LastTwoToOnePath(i, j) ==
    /\ i < j
    /\ inflight[i].tool = "export_diagram_formats"
    /\ inflight[j].tool = "export_diagram_formats"
    /\ TargetOf(i) = TargetOf(j)
    /\ \A k \in (j + 1)..Len(inflight) :
          inflight[k].tool = "export_diagram_formats" => TargetOf(k) # TargetOf(j)

\* The i-th invocation in flight reports success with its output path, once
\* it has answered.
ReportsSuccess(i) ==
    /\ inflight[i].rendered.ok
    /\ inflight[i].rendered.value.outputPath = Str(TargetOf(i))
    /\ inflight[i].stage = "done" =>
          /\ Contains(inflight[i].response.result.content[1].text,
                      "# Diagram Export Complete")
          /\ Contains(inflight[i].response.result.content[1].text,
                      "- **Output**: " \o TargetOf(i))

\* C28 (as stated): when two export invocations target the same output path,
\* in every interleaving the file holds the whole payload of the one that
\* wrote last, never a mixture, and both report success with that path.
C28_SamePathBothSucceed ==
    \A i \in 1..Len(inflight), j \in 1..Len(inflight) :
        LastTwoToOnePath(i, j) =>
            /\ TargetOf(j) \in DOMAIN fs.files
            /\ fs.files[TargetOf(j)] = PayloadOf(j)
            /\ ReportsSuccess(i)
            /\ ReportsSuccess(j)

\* C28 (amended): when two export invocations target the same output path,
\* then in every interleaving either both writes succeed, the file holds the
\* whole payload of the one that began last (the writes happen in the order
\* in which the invocations begin), never a mixture, and both report success
\* with that path; or the path cannot be written, both writes fail, both
\* invocations answer with an error text and there is no file at the path.
C28_SamePathLastWriteWins ==
    \A i \in 1..Len(inflight), j \in 1..Len(inflight) :
        LastTwoToOnePath(i, j) =>
            /\ inflight[i].rendered.ok <=> inflight[j].rendered.ok
            /\ inflight[j].rendered.ok =>
                  /\ TargetOf(j) \in DOMAIN fs.files
                  /\ fs.files[TargetOf(j)] = PayloadOf(j)
                  /\ ReportsSuccess(i)
                  /\ ReportsSuccess(j)
            /\ ~inflight[j].rendered.ok =>
                  /\ TargetOf(j) \notin DOMAIN fs.files
                  /\ \A k \in {i, j} :
                        inflight[k].stage = "done" =>
                           Contains(inflight[k].response.result.content[1].text,
                                    "Error executing export_diagram_formats: ")

\* C28 (witness): an SVG export and then a PNG export to out/a.svg; the
\* second has answered while the first is still suspended, and the file holds
\* the PNG payload, which is not the SVG payload.
C28_SecondWriteReplacedFirst ==
    /\ Len(inflight) = 2
    /\ LastTwoToOnePath(1, 2)
    /\ TargetOf(1) = "/work/out/a.svg"
    /\ Prop(inflight[1].arguments, "format") = Str("svg")
    /\ Prop(inflight[2].arguments, "format") = Str("png")
    /\ inflight[1].stage = "rendered"
    /\ inflight[2].stage = "done"
    /\ fs.files["/work/out/a.svg"] = PayloadOf(2)
    /\ PayloadOf(1) # PayloadOf(2)

C30_DecisionPointsFollowArgument ==
    (/\ Called
     /\ request.name = "create_workflow_diagram"
     /\ Contains(ResponseText, "## Workflow Features")
     /\ Contains(ResponseText, "flowchart TD")) =>
        /\ Contains(ResponseText, "- **Decision Points**: Not included")
             <=> Prop(request.arguments, "include_decision_points") = Bool(FALSE)
        /\ Contains(ResponseText, "- **Decision Points**: Not included") =>
              /\ ~Contains(ResponseText, "{Decision}")
              /\ ~Contains(ResponseText, "-->|Yes|")
        /\ Contains(ResponseText, "- **Decision Points**: Included") =>
              Contains(ResponseText, "B{Decision}")

====
